---- MODULE Spec2Model ----
(***************************************************************************)
(* Model of the financial-statement extraction core of                     *)
(* Money-Stories-Finserve: the retrying oracle clients (callGemini,        *)
(* extractFinancialData), the multi-stage pipeline (runExtractionPipeline),*)
(* the deterministic layout engine (LayoutEngine) and the normalization    *)
(* layer (normalizeRecords).                                               *)
(*                                                                         *)
(* Text is modelled as a sequence of one-character strings, so that the    *)
(* regular expressions and parseFloat of the source are computed character *)
(* by character.  A number is a record [k, m, p]: k = "fin" stands for     *)
(* m * 10^p (normalised: p <= 0, and m is a multiple of 10 only if p = 0),*)
(* and k = "null" for JavaScript's null.  An optional field is <<>> when  *)
(* it is absent and <<v>> when it is present.                              *)
(***************************************************************************)
EXTENDS Integers, Sequences, FiniteSets, TLC

----------------------------------------------------------------------------
(* Bounds of the model *)

MaxTokens == 3

MaxClassCols == 2

MaxClassRows == 1

MaxRaw == 2

MaxImages == 1

MaxSingleRecs == 2

MaxYearLen == 4

MaxValueLen == 3

MaxGridTokens == 3

----------------------------------------------------------------------------
(* Characters and text helpers *)

Digits == {"0", "1", "2", "3", "4", "5", "6", "7", "8", "9"}

Letters == {"a", "b", "c", "d", "e", "f", "g", "h", "i", "j", "k", "l", "m",
            "n", "o", "p", "q", "r", "s", "t", "u", "v", "w", "x", "y", "z",
            "A", "B", "C", "D", "E", "F", "G", "H", "I", "J", "K", "L", "M",
            "N", "O", "P", "Q", "R", "S", "T", "U", "V", "W", "X", "Y", "Z"}

\* \w of a JavaScript regular expression
WordChars == Digits \cup Letters \cup {"_"}

\* \s of a JavaScript regular expression, and the characters trim() removes
Whitespace == {" ", "\t", "\n", "\r"}

DigitVal(c) ==
    CASE c = "0" -> 0 [] c = "1" -> 1 [] c = "2" -> 2 [] c = "3" -> 3
      [] c = "4" -> 4 [] c = "5" -> 5 [] c = "6" -> 6 [] c = "7" -> 7
      [] c = "8" -> 8 [] c = "9" -> 9

Min(S) == CHOOSE x \in S : \A y \in S : x <= y

Max(S) == CHOOSE x \in S : \A y \in S : x >= y

Abs(n) == IF n < 0 THEN -n ELSE n

\* All sequences over S of length at most n
SeqUpTo(S, n) == UNION {[1..k -> S] : k \in 0..n}

None == <<>>

Some(v) == <<v>>

----------------------------------------------------------------------------
(* Normalization layer: src/src/lib/normalization.ts *)

\* The date pattern without its word boundaries, /(20\d{2})/
DateMatchAtAnywhere(s) ==
    {i \in 1..(Len(s) - 3) :
        /\ s[i] = "2" /\ s[i + 1] = "0"
        /\ s[i + 2] \in Digits /\ s[i + 3] \in Digits}

\* input.match(/\b(20\d{2})\b/): the positions where the pattern matches
DateMatchAt(s) ==
    {i \in 1..(Len(s) - 3) :
        /\ s[i] = "2" /\ s[i + 1] = "0"
        /\ s[i + 2] \in Digits /\ s[i + 3] \in Digits
        /\ (i = 1 \/ s[i - 1] \notin WordChars)
        /\ (i + 3 = Len(s) \/ s[i + 4] \notin WordChars)}

\* Two digits at positions j and j+1
TwoDigitsAt(s, j) ==
    /\ j + 1 <= Len(s)
    /\ s[j] \in Digits /\ s[j + 1] \in Digits

\* Where the capture group of /FY\s?(\d{2,4})/i starts for a match that
\* begins at i (0 when there is no match at i)
FyDigitsStart(s, i) ==
    IF ~(i + 1 <= Len(s) /\ s[i] \in {"F", "f"} /\ s[i + 1] \in {"Y", "y"})
    THEN 0
    ELSE IF i + 2 <= Len(s) /\ s[i + 2] \in Whitespace /\ TwoDigitsAt(s, i + 3)
         THEN i + 3
         ELSE IF TwoDigitsAt(s, i + 2) THEN i + 2 ELSE 0

FyMatchAt(s) == {i \in 1..Len(s) : FyDigitsStart(s, i) # 0}

\* \d{2,4} is greedy: the longest run of 2 to 4 digits starting at j
FyCapture(s, j) ==
    LET n == Max({k \in 2..4 : \A d \in 0..(k - 1) :
                                   j + d <= Len(s) /\ s[j + d] \in Digits})
    IN SubSeq(s, j, j + n - 1)

\* normalizeYear: None stands for null
normalizeYear(input) ==
    IF input = <<>> THEN None
    ELSE IF DateMatchAt(input) # {}
         THEN LET i == Min(DateMatchAt(input)) IN Some(SubSeq(input, i, i + 3))
         ELSE IF FyMatchAt(input) # {}
              THEN LET i == Min(FyMatchAt(input))
                       year == FyCapture(input, FyDigitsStart(input, i))
                   IN IF Len(year) = 2 THEN Some(<<"2", "0">> \o year)
                      ELSE Some(year)
              ELSE None

\* Numbers: m * 10^p, or null
NullNum == [k |-> "null", m |-> 0, p |-> 0]

RECURSIVE NormNum(_, _)
NormNum(m, p) ==
    IF m = 0 THEN [k |-> "fin", m |-> 0, p |-> 0]
    ELSE IF p > 0 THEN NormNum(m * 10, p - 1)
         ELSE IF p < 0 /\ m % 10 = 0 THEN NormNum(m \div 10, p + 1)
              ELSE [k |-> "fin", m |-> m, p |-> p]

RECURSIVE DigitsValue(_)
DigitsValue(ds) ==
    IF ds = <<>> THEN 0
    ELSE 10 * DigitsValue(SubSeq(ds, 1, Len(ds) - 1)) + DigitVal(ds[Len(ds)])

\* val.replace(/,/g, "")
RECURSIVE StripCommas(_)
StripCommas(s) ==
    IF s = <<>> THEN <<>>
    ELSE IF Head(s) = "," THEN StripCommas(Tail(s))
         ELSE <<Head(s)>> \o StripCommas(Tail(s))

\* The first ")" at or after position j (0 when there is none)
FirstClose(s, j) ==
    LET C == {c \in j..Len(s) : s[c] = ")"}
    IN IF C = {} THEN 0 ELSE Min(C)

\* .replace(/\((.*?)\)/, "-$1"): only the leftmost match is rewritten; "."
\* does not match a line terminator
ParenToMinus(s) ==
    LET M == {i \in 1..Len(s) :
                /\ s[i] = "("
                /\ FirstClose(s, i + 1) # 0
                /\ \A c \in (i + 1)..(FirstClose(s, i + 1) - 1) :
                       s[c] \notin {"\n", "\r"}}
    IN IF M = {} THEN s
       ELSE LET i == Min(M)
                j == FirstClose(s, i + 1)
            IN SubSeq(s, 1, i - 1) \o <<"-">> \o SubSeq(s, i + 1, j - 1)
                 \o SubSeq(s, j + 1, Len(s))

\* String.prototype.trim
RECURSIVE Trim(_)
Trim(s) ==
    IF s = <<>> THEN s
    ELSE IF Head(s) \in Whitespace THEN Trim(Tail(s))
         ELSE IF s[Len(s)] \in Whitespace THEN Trim(SubSeq(s, 1, Len(s) - 1))
              ELSE s

\* The length of the run of digits of s that starts at position j
DigitRun(s, j) ==
    Max({n \in 0..(Len(s) - j + 1) :
            \A d \in 0..(n - 1) : s[j + d] \in Digits})

\* The number (-1)^neg * mant * 10^p
SignedNum(neg, mant, p) ==
    LET n == NormNum(mant, p)
    IN [n EXCEPT !.m = IF neg THEN -n.m ELSE n.m]

\* The value of the exponent part that starts at position e0 of s: "e" or
\* "E", an optional sign and at least one digit; 0 when there is none
ExponentAt(s, e0) ==
    LET hasE == e0 <= Len(s) /\ s[e0] \in {"e", "E"}
        sg   == hasE /\ e0 + 1 <= Len(s) /\ s[e0 + 1] \in {"+", "-"}
        x0   == IF sg THEN e0 + 2 ELSE e0 + 1
        nx   == IF hasE THEN DigitRun(s, x0) ELSE 0
    IN IF nx = 0 THEN 0
       ELSE (IF sg /\ s[e0 + 1] = "-" THEN -1 ELSE 1)
              * DigitsValue(SubSeq(s, x0, x0 + nx - 1))

\* The decimal literal of s whose na integer digits start at position a0.
\* The fraction is part of the literal when there are digits on either side
\* of the point; without any digit there is no literal (NaN).
DecimalLiteral(s, neg, a0, na) ==
    LET dot  == a0 + na <= Len(s) /\ s[a0 + na] = "."
        nb   == IF dot THEN DigitRun(s, a0 + na + 1) ELSE 0
        frac == dot /\ (na > 0 \/ nb > 0)
        fp   == IF frac THEN SubSeq(s, a0 + na + 1, a0 + na + nb) ELSE <<>>
        e0   == a0 + na + (IF frac THEN 1 + nb ELSE 0)
    IN IF na = 0 /\ ~(dot /\ nb > 0) THEN NullNum
       ELSE SignedNum(neg, DigitsValue(SubSeq(s, a0, a0 + na - 1) \o fp),
                      ExponentAt(s, e0) - Len(fp))

\* The literal of a text without leading white space: an optional sign,
\* then the digits
SignedLiteral(s) ==
    LET a0 == IF s # <<>> /\ s[1] \in {"+", "-"} THEN 2 ELSE 1
    IN DecimalLiteral(s, s # <<>> /\ s[1] = "-", a0, DigitRun(s, a0))

\* parseFloat: the number written by the longest prefix of the trimmed text
\* that is a decimal literal (sign, digits, fraction, exponent), NaN (here
\* null, which is what normalizeNumber makes of it) when no prefix is one.
\* The model's texts never spell "Infinity".
parseFloat(str) == SignedLiteral(Trim(str))

\* A raw value is [t |-> "null" | "num" | "str", n |-> number, s |-> text]
NullVal == [t |-> "null", n |-> NullNum, s |-> <<>>]

NumVal(n) == [t |-> "num", n |-> n, s |-> <<>>]

StrVal(s) == [t |-> "str", n |-> NullNum, s |-> s]

\* normalizeNumber
normalizeNumber(val) ==
    IF val.t = "null" THEN NullNum
    ELSE IF val.t = "num" THEN val.n
         ELSE IF val.t = "str"
              THEN parseFloat(Trim(ParenToMinus(StripCommas(val.s))))
              ELSE NullNum

\* Texts the source names literally
sRevenue == <<"R", "e", "v", "e", "n", "u", "e">>

sExpenses == <<"E", "x", "p", "e", "n", "s", "e", "s">>

sProfit == <<"P", "r", "o", "f", "i", "t">>

sOther == <<"O", "t", "h", "e", "r">>

sCrores == <<"C", "r", "o", "r", "e", "s">>

sHigh == <<"H", "i", "g", "h">>

sMedium == <<"M", "e", "d", "i", "u", "m">>

sLow == <<"L", "o", "w">>

sUnknown == <<"U", "n", "k", "n", "o", "w", "n">>

sNoTable == <<"N", "o", " ", "f", "i", "n", "a", "n", "c", "i", "a", "l", " ",
              "t", "a", "b", "l", "e", " ", "d", "e", "t", "e", "c", "t", "e",
              "d", ".">>

UpperSeq == <<"A", "B", "C", "D", "E", "F", "G", "H", "I", "J", "K", "L", "M",
              "N", "O", "P", "Q", "R", "S", "T", "U", "V", "W", "X", "Y", "Z">>

LowerSeq == <<"a", "b", "c", "d", "e", "f", "g", "h", "i", "j", "k", "l", "m",
              "n", "o", "p", "q", "r", "s", "t", "u", "v", "w", "x", "y", "z">>

\* String.prototype.toLowerCase
toLowerCase(s) ==
    [i \in 1..Len(s) |->
        IF \E u \in 1..26 : UpperSeq[u] = s[i]
        THEN LowerSeq[CHOOSE u \in 1..26 : UpperSeq[u] = s[i]]
        ELSE s[i]]

\* String.prototype.includes
includes(s, sub) ==
    \E i \in 1..(Len(s) - Len(sub) + 1) : SubSeq(s, i, i + Len(sub) - 1) = sub

\* normalizeCategory
normalizeCategory(lineItem) ==
    LET item == toLowerCase(lineItem)
    IN IF \/ includes(item, <<"r", "e", "v", "e", "n", "u", "e">>)
          \/ includes(item, <<"i", "n", "c", "o", "m", "e">>)
       THEN sRevenue
       ELSE IF \/ includes(item, <<"e", "x", "p", "e", "n", "s", "e">>)
               \/ includes(item, <<"c", "o", "s", "t">>)
               \/ includes(item, <<"d", "e", "p", "r", "e", "c", "i", "a", "t",
                                   "i", "o", "n">>)
            THEN sExpenses
            ELSE IF \/ includes(item, <<"p", "r", "o", "f", "i", "t">>)
                    \/ includes(item, <<"l", "o", "s", "s">>)
                 THEN sProfit
                 ELSE sOther

\* JavaScript's truthiness of an optional text: absent, null and "" are falsy
Truthy(opt) == opt # None /\ opt[1] # <<>>

\* The clean record normalizeRecords pushes for the raw record r
CleanOf(r, year, value) ==
    [category     |-> IF Truthy(r.category) THEN r.category[1]
                      ELSE normalizeCategory(r.lineItem),
     subCategory  |-> IF Truthy(r.subCategory) THEN r.subCategory ELSE None,
     lineItem     |-> r.lineItem,
     year         |-> year,
     value        |-> value,
     unit         |-> IF Truthy(r.unit) THEN r.unit ELSE Some(sCrores),
     confidence   |-> IF Truthy(r.confidence)
                         /\ r.confidence[1] \in {sHigh, sMedium, sLow}
                      THEN r.confidence[1] ELSE sMedium,
     sourceSnippet |-> r.sourceSnippet[1]]

\* normalizeRecords with the evidence check written as
\* "r.sourceSnippet === undefined": an empty snippet is let through
RECURSIVE CleanRecordsEmptySnippet(_)
CleanRecordsEmptySnippet(records) ==
    IF records = <<>> THEN <<>>
    ELSE LET r     == Head(records)
             year  == normalizeYear(r.year)
             value == normalizeNumber(r.value)
         IN IF year = None \/ value.k = "null" \/ r.sourceSnippet = None
            THEN CleanRecordsEmptySnippet(Tail(records))
            ELSE <<CleanOf(r, year[1], value)>>
                   \o CleanRecordsEmptySnippet(Tail(records))

\* The loop of normalizeRecords: the records that survive, in order
RECURSIVE CleanRecords(_)
CleanRecords(records) ==
    IF records = <<>> THEN <<>>
    ELSE LET r     == Head(records)
             year  == normalizeYear(r.year)
             value == normalizeNumber(r.value)
         IN IF year = None \/ value.k = "null" \/ ~Truthy(r.sourceSnippet)
            THEN CleanRecords(Tail(records))
            ELSE <<CleanOf(r, year[1], value)>> \o CleanRecords(Tail(records))

\* The order of the code units of the characters a year can hold (digits)
RECURSIVE StrLess(_, _)
StrLess(a, b) ==
    IF a = <<>> THEN b # <<>>
    ELSE IF b = <<>> THEN FALSE
         ELSE IF Head(a) = Head(b) THEN StrLess(Tail(a), Tail(b))
              ELSE DigitVal(Head(a)) < DigitVal(Head(b))

\* The distinct texts in descending order, as sort().reverse() gives them
RECURSIVE ReverseSortedTexts(_)
ReverseSortedTexts(S) ==
    IF S = {} THEN <<>>
    ELSE LET most == CHOOSE x \in S : \A y \in S \ {x} : StrLess(y, x)
         IN <<most>> \o ReverseSortedTexts(S \ {most})

\* Array.from(new Set(xs)).sort(): the distinct texts in ascending order
RECURSIVE SortedTexts(_)
SortedTexts(S) ==
    IF S = {} THEN <<>>
    ELSE LET least == CHOOSE x \in S : \A y \in S \ {x} : StrLess(x, y)
         IN <<least>> \o SortedTexts(S \ {least})

\* normalizeRecords; raw.records is always an array here
normalizeRecords(raw) ==
    LET cleanRecords == CleanRecords(raw.records)
    IN [records       |-> cleanRecords,
        yearsDetected |-> SortedTexts({cleanRecords[i].year :
                                          i \in 1..Len(cleanRecords)}),
        notes         |-> IF Truthy(raw.notes) THEN raw.notes[1] ELSE <<>>]

----------------------------------------------------------------------------
(* Schemas: src/unnamed/part_005 *)

\* year: z.string().regex(/^\d{4}$/)
IsFourDigits(s) == Len(s) = 4 /\ \A i \in 1..4 : s[i] \in Digits

CleanRecordSchema(r) ==
    /\ IsFourDigits(r.year)
    /\ r.confidence \in {sHigh, sMedium, sLow}

\* CleanExtractionSchema.safeParse(x).success
CleanExtractionSchema(x) ==
    \A i \in 1..Len(x.records) : CleanRecordSchema(x.records[i])
----------------------------------------------------------------------------
(* Layout engine: src/unnamed/part_002, class LayoutEngine.  A token is     *)
(* [page, x, y, str]; a cell is [x, text, colIndex] with colIndex optional; *)
(* a column is [sum, count], the mean sum/count of its cluster, compared    *)
(* without dividing.                                                        *)

ROW_TOLERANCE_Y == 5

COLUMN_TOLERANCE_X == 20

MATCH_TOLERANCE == 30

NewCell(item) == [x |-> item.x, text |-> item.str, colIndex |-> None]

\* The nearest of the rows that are close enough in y, the later one of two
\* equally near
FindRowNearest(rows, item) ==
    LET M == {i \in 1..Len(rows) : Abs(rows[i].y - item.y) < ROW_TOLERANCE_Y}
    IN IF M = {} THEN 0
       ELSE Max({i \in M : \A j \in M : Abs(rows[i].y - item.y)
                                            <= Abs(rows[j].y - item.y)})

\* rows.find(r => Math.abs(r.y - item.y) < ROW_TOLERANCE_Y): its index, or 0
FindRow(rows, item) ==
    LET M == {i \in 1..Len(rows) : Abs(rows[i].y - item.y) < ROW_TOLERANCE_Y}
    IN IF M = {} THEN 0 ELSE Min(M)

\* The matched row keeping the new cell only
AddItemReplacing(rows, item) ==
    LET m == FindRow(rows, item)
    IN IF m # 0
       THEN [rows EXCEPT ![m].cells = <<NewCell(item)>>]
       ELSE Append(rows, [y |-> item.y, cells |-> <<NewCell(item)>>])

\* One iteration of the forEach of groupByRows
AddItem(rows, item) ==
    LET m == FindRow(rows, item)
    IN IF m # 0
       THEN [rows EXCEPT ![m].cells = Append(@, NewCell(item))]
       ELSE Append(rows, [y |-> item.y, cells |-> <<NewCell(item)>>])

RECURSIVE GroupFrom(_, _)
GroupFrom(rows, items) ==
    IF items = <<>> THEN rows
    ELSE GroupFrom(AddItem(rows, Head(items)), Tail(items))

groupByRows(items) == GroupFrom(<<>>, items)

\* Array.prototype.sort is stable.  StablePerm(keys) is the order in which a
\* stable ascending sort by integer key leaves the indices 1..Len(keys).
RECURSIVE InsertIdx(_, _, _)
InsertIdx(sorted, i, keys) ==
    IF sorted = <<>> THEN <<i>>
    ELSE IF keys[i] < keys[Head(sorted)] THEN <<i>> \o sorted
         ELSE <<Head(sorted)>> \o InsertIdx(Tail(sorted), i, keys)

RECURSIVE PermUpTo(_, _)
PermUpTo(keys, n) ==
    IF n = 0 THEN <<>> ELSE InsertIdx(PermUpTo(keys, n - 1), n, keys)

StablePerm(keys) == PermUpTo(keys, Len(keys))

\* The rows sorted by ascending y
SortRowsAsc(rows) ==
    LET perm == StablePerm([i \in 1..Len(rows) |-> rows[i].y])
    IN [k \in 1..Len(rows) |-> rows[perm[k]]]

\* rows.sort((a, b) => b.y - a.y)
SortRowsDesc(rows) ==
    LET perm == StablePerm([i \in 1..Len(rows) |-> 0 - rows[i].y])
    IN [k \in 1..Len(rows) |-> rows[perm[k]]]

\* row.cells.sort((a, b) => a.x - b.x)
SortCellsAsc(cells) ==
    LET perm == StablePerm([i \in 1..Len(cells) |-> cells[i].x])
    IN [k \in 1..Len(cells) |-> cells[perm[k]]]

\* allX.sort((a, b) => a - b)
SortNumbersAsc(xs) ==
    LET perm == StablePerm(xs)
    IN [k \in 1..Len(xs) |-> xs[perm[k]]]

RECURSIVE AllXOf(_)
AllXOf(rows) ==
    IF rows = <<>> THEN <<>>
    ELSE [i \in 1..Len(Head(rows).cells) |-> Head(rows).cells[i].x]
           \o AllXOf(Tail(rows))

\* A gap of COLUMN_TOLERANCE_X itself ending the cluster
EndOfClusterAtTolerance(allX, i) == allX[i] - allX[i - 1] >= COLUMN_TOLERANCE_X

\* if (allX[i] - allX[i - 1] > this.COLUMN_TOLERANCE_X)
EndOfCluster(allX, i) == allX[i] - allX[i - 1] > COLUMN_TOLERANCE_X

\* The loop of detectColumns from index i on, the open cluster being cur
RECURSIVE ClusterFrom(_, _, _, _)
ClusterFrom(allX, i, cur, columns) ==
    IF i > Len(allX) THEN Append(columns, cur)
    ELSE IF EndOfCluster(allX, i)
         THEN ClusterFrom(allX, i + 1, [sum |-> allX[i], count |-> 1],
                          Append(columns, cur))
         ELSE ClusterFrom(allX, i + 1,
                          [sum |-> cur.sum + allX[i], count |-> cur.count + 1],
                          columns)

detectColumns(rows) ==
    LET allX == SortNumbersAsc(AllXOf(rows))
    IN IF Len(allX) > 0
       THEN ClusterFrom(allX, 2, [sum |-> allX[1], count |-> 1], <<>>)
       ELSE <<>>

\* Math.abs(cell.x - colX) < Math.abs(cell.x - colY), for means colX, colY
CloserTo(x, c, d) ==
    Abs(x * c.count - c.sum) * d.count < Abs(x * d.count - d.sum) * c.count

\* A distance of MATCH_TOLERANCE itself matching
WithinMatchInclusive(x, c) ==
    Abs(x * c.count - c.sum) <= MATCH_TOLERANCE * c.count

\* Math.abs(cell.x - colX) < MATCH_TOLERANCE
WithinMatch(x, c) == Abs(x * c.count - c.sum) < MATCH_TOLERANCE * c.count

\* The inner columns.forEach of alignCellsToColumns from index i on;
\* best = 0 stands for bestColIndex = -1 (and minDiff = Infinity)
RECURSIVE BestColFrom(_, _, _, _)
BestColFrom(x, columns, i, best) ==
    IF i > Len(columns) THEN best
    ELSE IF /\ (best = 0 \/ CloserTo(x, columns[i], columns[best]))
            /\ WithinMatch(x, columns[i])
         THEN BestColFrom(x, columns, i + 1, i)
         ELSE BestColFrom(x, columns, i + 1, best)

\* colIndex is 0-based in the source and here
AlignCell(cell, columns) ==
    LET best == BestColFrom(cell.x, columns, 1, 0)
    IN IF best # 0 THEN [cell EXCEPT !.colIndex = Some(best - 1)] ELSE cell

alignCellsToColumns(rows, columns) ==
    [r \in 1..Len(rows) |->
        LET cells == SortCellsAsc(rows[r].cells)
        IN [rows[r] EXCEPT !.cells =
               [c \in 1..Len(cells) |-> AlignCell(cells[c], columns)]]]

buildGrid(items) ==
    LET rows          == SortRowsDesc(groupByRows(items))
        globalColumns == detectColumns(rows)
    IN [rows |-> alignCellsToColumns(rows, globalColumns),
        headers |-> globalColumns]
----------------------------------------------------------------------------
(* Stage schemas: src/unnamed/part_005.  A JSON value of an enum or boolean *)
(* field is written as its literal.                                         *)

\* TableDetectionSchema.safeParse(json).success
TableDetectionSchema(json) ==
    /\ json.hasTable \in {"true", "false"}
    /\ json.tableType \in {"income_statement", "balance_sheet", "cash_flow",
                            "other", "unknown"}
    /\ json.confidence \in {"high", "medium", "low"}

\* TableClassificationSchema.safeParse(json).success; index is a number and
\* year an optional string by construction of the model's payloads
TableClassificationSchema(json) ==
    /\ \A i \in 1..Len(json.columns) :
           json.columns[i].type \in {"quarter", "nine_months", "year", "unknown"}
    /\ \A i \in 1..Len(json.rows) :
           json.rows[i].category \in {sRevenue, sExpenses, sProfit, sOther}

----------------------------------------------------------------------------
(* Pipeline: src/src/lib/pipeline.ts *)

\* textData.filter(t => t.page === 1)
RECURSIVE Page1(_)
Page1(textData) ==
    IF textData = <<>> THEN <<>>
    ELSE IF Head(textData).page = 1
         THEN <<Head(textData)>> \o Page1(Tail(textData))
         ELSE Page1(Tail(textData))

\* The forEach that fills denseRow, from cell c on
RECURSIVE FillDense(_, _, _, _)
FillDense(denseRow, cells, c, totalColumns) ==
    IF c > Len(cells) THEN denseRow
    ELSE LET cell == cells[c]
         IN IF /\ cell.colIndex # None
               /\ cell.colIndex[1] >= 0 /\ cell.colIndex[1] < totalColumns
            THEN FillDense([denseRow EXCEPT ![cell.colIndex[1] + 1] = cell.text],
                           cells, c + 1, totalColumns)
            ELSE FillDense(denseRow, cells, c + 1, totalColumns)

\* The dense rows of gridRepresentation, before they are joined with " | ";
\* position j + 1 holds column index j
DenseGrid(gridRows, totalColumns) ==
    [i \in 1..Len(gridRows) |->
        FillDense([j \in 1..totalColumns |-> <<>>], gridRows[i].cells, 1,
                  totalColumns)]

\* gridRow.cells.find(c => c.colIndex === classCol.index): its position, or 0
FindCell(cells, index) ==
    LET M == {c \in 1..Len(cells) : cells[c].colIndex = Some(index)}
    IN IF M = {} THEN 0 ELSE Min(M)

\* gridRow.cells[0]?.text || "Unknown"
LineItemOf(gridRow) ==
    IF Len(gridRow.cells) > 0 /\ gridRow.cells[1].text # <<>>
    THEN gridRow.cells[1].text ELSE sUnknown

\* The raw record pushed for one row and one year column
MergedRecord(category, lineItem, year, value) ==
    [category      |-> Some(category),
     lineItem      |-> lineItem,
     year          |-> year,
     value         |-> StrVal(value),
     sourceSnippet |-> Some(lineItem \o <<":", " ">> \o value),
     confidence    |-> Some(sHigh),
     subCategory   |-> None,
     unit          |-> None]

\* The merge without the test of classCol.type
MergeCellAnyType(classRow, gridRow, classCol) ==
    IF Truthy(classCol.year)
    THEN LET c == FindCell(gridRow.cells, classCol.index)
         IN IF c # 0 /\ gridRow.cells[c].text # <<>>
            THEN <<MergedRecord(classRow.category, LineItemOf(gridRow),
                                classCol.year[1], gridRow.cells[c].text)>>
            ELSE <<>>
    ELSE <<>>

\* The body of classification.columns.forEach for one classified column:
\* the records it pushes (none or one)
MergeCell(classRow, gridRow, classCol) ==
    IF classCol.type = "year" /\ Truthy(classCol.year)
    THEN LET c == FindCell(gridRow.cells, classCol.index)
         IN IF c # 0 /\ gridRow.cells[c].text # <<>>
            THEN <<MergedRecord(classRow.category, LineItemOf(gridRow),
                                classCol.year[1], gridRow.cells[c].text)>>
            ELSE <<>>
    ELSE <<>>

RECURSIVE MergeColumns(_, _, _)
MergeColumns(classRow, gridRow, columns) ==
    IF columns = <<>> THEN <<>>
    ELSE MergeCell(classRow, gridRow, Head(columns))
           \o MergeColumns(classRow, gridRow, Tail(columns))

\* STEP 4, the deterministic merge: rawRecords after the loop over
\* classification.rows; gridRows[classRow.index] is undefined off the grid
RECURSIVE Merge(_, _, _)
Merge(classRows, classCols, gridRows) ==
    IF classRows = <<>> THEN <<>>
    ELSE LET classRow == Head(classRows)
         IN (IF classRow.index >= 0 /\ classRow.index < Len(gridRows)
             THEN MergeColumns(classRow, gridRows[classRow.index + 1], classCols)
             ELSE <<>>)
              \o Merge(Tail(classRows), classCols, gridRows)
----------------------------------------------------------------------------
(* State *)

VARIABLES
    entry,          \* the function that runs: "runExtractionPipeline",
                    \* "extractFinancialData", "normalizeRecords",
                    \* "processFinancialStatement" or "App"
    images,         \* the images argument of processFinancialStatement:
                    \* None when absent, else the number of images
    response,       \* the value processFinancialStatement resolved to
    renormalized,   \* the value of normalizeRecords applied to its own result
    self,           \* which of two concurrent runs is the one described by
                    \* the variables below: 1 or 2, 0 when there is one run
    script,         \* the responses the oracle gives to this run's
                    \* requests, in order, when they are fixed in advance
    other,          \* the other of two concurrent runs, suspended: its
                    \* variables as a record, None when there is one run
    layout,         \* a call of buildGrid taken step by step: its items,
                    \* the number of them seen by the forEach of
                    \* groupByRows, its rows, its globalColumns and the
                    \* step it is at; None when buildGrid runs in one piece
    app,            \* the React state of the App component: loading,
                    \* progress, status, data, error, pdfFile; None when no
                    \* page is mounted
    handlers,       \* the calls of handleUpload made so far, each with
                    \* its file and at "converting" (awaiting Promise.all),
                    \* "calling" (awaiting processFinancialStatement) or
                    \* "returned"
    apiKeySet,      \* process.env.GEMINI_API_KEY is set
    base64Images,   \* the number of page images passed in
    textData,       \* the positioned text tokens passed in
    pc,             \* "start", "request" (awaiting generateContent),
                    \* "backoff" (awaiting setTimeout), "done", "failed"
    stageName,      \* the stageName of the running callGemini
    attempt,        \* the loop variable of the retry loop
    delay,          \* the setTimeout delay being awaited, in ms
    lastError,      \* lastError of extractFinancialData
    detection,      \* the payload the detection stage returned
    grid,           \* {rows: gridRows, headers: gridColumns} of buildGrid
    gridRepresentation, \* the dense rows put in the classification prompt
    classification, \* the payload the classification stage returned
    raw,            \* the argument of normalizeRecords
    normalized,     \* the value normalizeRecords returned
    result,         \* the value the entry function returned
    error,          \* the error the entry function raised
    requests,       \* history: generateContent calls made, by stage
    waits           \* history: the backoff waits started, <<attempt, ms>>

\* The state of the server action around a run
actionVars == <<images, response>>

\* The state of a second application of normalizeRecords
textVars == <<renormalized>>

\* The state of two concurrent runs
twoVars == <<self, script, other>>

\* The state of the page
uiVars == <<app, handlers>>

\* The state of a call of buildGrid taken step by step
layoutVars == <<layout>>

\* The state outside the running extraction function
outer == <<actionVars, textVars, twoVars, uiVars, layoutVars>>

\* The same but for the state of the server action
outerButAction == <<textVars, twoVars, uiVars, layoutVars>>

\* The same but for the state of the second application
outerButText == <<actionVars, twoVars, uiVars, layoutVars>>

\* The same but for the state of two concurrent runs
outerButTwo == <<actionVars, textVars, uiVars, layoutVars>>

\* The same but for the state of the page
outerButUI == <<actionVars, textVars, twoVars, layoutVars>>

\* The same but for the state of the stepwise buildGrid
outerButLayout == <<actionVars, textVars, twoVars, uiVars>>

vars == <<entry, outer, apiKeySet, base64Images, textData, pc, stageName, attempt,
          delay, lastError, detection, grid, gridRepresentation,
          classification, raw, normalized, result, error, requests, waits>>

\* const MAX_RETRIES = 2 of callGemini
MAX_RETRIES == 2

\* const MAX_RETRIES = 3 of extractFinancialData
MAX_RETRIES_SINGLE == 3

----------------------------------------------------------------------------
(* Inputs *)

s100 == <<"1", "0", "0">>

s120 == <<"1", "2", "0">>

sNA == <<"N", "/", "A">>

s2024 == <<"2", "0", "2", "4">>

s2023 == <<"2", "0", "2", "3">>

sFY24 == <<"F", "Y", "2", "4">>

sFY123 == <<"F", "Y", "1", "2", "3">>

sGarbage == <<"g", "a", "r", "b", "a", "g", "e">>

\* The text tokens of a document, in the order the reader delivers them:
\* a label and two figures on one line (y within the row tolerance), a
\* token of page 2, and a second line with a non-numeric figure
Document ==
    <<[page |-> 1, x |-> 200, y |-> 702, str |-> s100],
      [page |-> 1, x |-> 50,  y |-> 700, str |-> sRevenue],
      [page |-> 1, x |-> 300, y |-> 699, str |-> s120],
      [page |-> 2, x |-> 200, y |-> 700, str |-> s100],
      [page |-> 1, x |-> 310, y |-> 650, str |-> sNA]>>

\* The tokens of doc at the positions S, in order
RECURSIVE Pick(_, _)
Pick(doc, S) ==
    IF S = {} THEN <<>>
    ELSE Pick(doc, S \ {Max(S)}) \o <<doc[Max(S)]>>

\* Documents: at most MaxTokens of the tokens
TextInputs ==
    {Pick(Document, S) :
        S \in {T \in SUBSET (1..Len(Document)) : Cardinality(T) <= MaxTokens}}

\* What the oracle may answer to the detection prompt
DetectionJsons ==
    [hasTable   : {"true", "false", "1"},
     tableType  : {"income_statement", "unknown"},
     confidence : {"high", "medium", "low", "HIGH"}]

\* The column entries of a classification answer ("annual" is no type of
\* the schema)
ColEntries ==
    {[index |-> 1, type |-> "year",    year |-> Some(s2024)],
     [index |-> 2, type |-> "year",    year |-> Some(s2023)],
     [index |-> 1, type |-> "year",    year |-> Some(sFY123)],
     [index |-> 1, type |-> "quarter", year |-> Some(s2024)],
     [index |-> 2, type |-> "year",    year |-> None],
     [index |-> 1, type |-> "annual",  year |-> Some(s2024)]}

\* The row entries of a classification answer (index 1 is off the grid of a
\* document of one line, "Income" is no category of the schema)
RowEntries ==
    {[index |-> 0, category |-> sRevenue],
     [index |-> 1, category |-> sExpenses],
     [index |-> 0, category |-> <<"I", "n", "c", "o", "m", "e">>]}

ClassificationJsons ==
    [columns : SeqUpTo(ColEntries, MaxClassCols),
     rows    : SeqUpTo(RowEntries, MaxClassRows)]

\* What one generateContent call can come to: the service fails, the text
\* is not JSON, or the text is the JSON document json
Responses(jsons) ==
    {[kind |-> "service_error", json |-> <<>>],
     [kind |-> "not_json", json |-> <<>>]}
      \cup {[kind |-> "json", json |-> j] : j \in jsons}

NoRequests == [DETECTION |-> 0, CLASSIFICATION |-> 0, SINGLE |-> 0]

\* An error value: what failed, the stage name its message carries ("" when
\* it carries none) and the attempt that raised it
Err(cause, label, k) == [cause |-> cause, label |-> label, attempt |-> k]

Idle ==
    /\ pc = "start"
    /\ stageName = ""
    /\ attempt = 0
    /\ delay = 0
    /\ lastError = None
    /\ detection = None
    /\ grid = None
    /\ gridRepresentation = None
    /\ classification = None
    /\ normalized = None
    /\ result = None
    /\ error = None
    /\ requests = NoRequests
    /\ waits = <<>>
    /\ response = None
    /\ renormalized = None

\* One run, the oracle free to answer anything at each request
Solo ==
    /\ self = 0
    /\ script = <<>>
    /\ other = None

\* No page is mounted
NoPage ==
    /\ app = None
    /\ handlers = <<>>

\* buildGrid runs in one piece
NoLayout == layout = None

InitPipeline ==
    /\ entry = "runExtractionPipeline"
    /\ images = None
    /\ apiKeySet \in BOOLEAN
    /\ base64Images \in {0, MaxImages}
    /\ textData \in TextInputs
    /\ raw = None
    /\ Idle
    /\ Solo
    /\ NoPage
    /\ NoLayout

----------------------------------------------------------------------------
(* callGemini and runExtractionPipeline: src/src/lib/pipeline.ts *)

SchemaOk(stage, json) ==
    IF stage = "DETECTION" THEN TableDetectionSchema(json)
    ELSE TableClassificationSchema(json)

StageResponses(stage) ==
    IF stage = "DETECTION" THEN Responses(DetectionJsons)
    ELSE Responses(ClassificationJsons)

\* callGemini returning the parsed JSON without looking at parsed.success
AttemptFailureNoSchema(stage, resp, k) ==
    IF resp.kind = "service_error" THEN Some(Err("service", "", k))
    ELSE IF resp.kind = "not_json" THEN Some(Err("syntax", "", k))
         ELSE None

\* callGemini raising the schema error without the stage name
AttemptFailureNoLabel(stage, resp, k) ==
    IF resp.kind = "service_error" THEN Some(Err("service", "", k))
    ELSE IF resp.kind = "not_json" THEN Some(Err("syntax", "", k))
         ELSE IF ~SchemaOk(stage, resp.json) THEN Some(Err("schema", "", k))
              ELSE None

\* The error the try block of callGemini raises on attempt k for the
\* response resp, None when it reaches "return parsed.data".  Only the
\* schema error is built by callGemini and names the stage; the errors of
\* generateContent and JSON.parse carry their own messages.
AttemptFailure(stage, resp, k) ==
    IF resp.kind = "service_error" THEN Some(Err("service", "", k))
    ELSE IF resp.kind = "not_json" THEN Some(Err("syntax", "", k))
         ELSE IF ~SchemaOk(stage, resp.json) THEN Some(Err("schema", stage, k))
              ELSE None

\* setTimeout(r, 1000 * attempt)
BackoffDelay(k) == 1000 * k

\* The retry loop giving up one attempt late
LastAttemptLate(k) == k = MAX_RETRIES + 1

\* if (attempt === MAX_RETRIES) throw error
LastAttempt(k) == k = MAX_RETRIES

\* The gate looking at hasTable only
NoTableIgnoresConfidence(d) == d.hasTable = "false"

\* The gate letting every detection payload through
NoTableNever(d) == FALSE

\* if (!detection.hasTable || detection.confidence === "low")
NoTable(d) == d.hasTable = "false" \/ d.confidence = "low"

EmptyResult == [records |-> <<>>, yearsDetected |-> <<>>, notes |-> sNoTable]

Raise(e) ==
    /\ pc' = "failed"
    /\ error' = Some(e)

\* The entry of runExtractionPipeline up to the first generateContent call
Start ==
    /\ entry = "runExtractionPipeline"
    /\ pc = "start"
    /\ IF ~apiKeySet
       THEN /\ Raise(Err("config", "", 0))
            /\ UNCHANGED <<stageName, attempt, requests>>
       ELSE /\ pc' = "request"
            /\ stageName' = "DETECTION"
            /\ attempt' = 1
            /\ requests' = [requests EXCEPT !.DETECTION = @ + 1]
            /\ UNCHANGED error
    /\ UNCHANGED <<entry, outer, apiKeySet, base64Images, textData, delay, lastError,
                   detection, grid, gridRepresentation, classification, raw,
                   normalized, result, waits>>

\* An attempt of callGemini ends in the catch block, generateContent
\* having come to resp
CallFailsWith(resp) ==
    /\ entry = "runExtractionPipeline"
    /\ pc = "request"
    /\ LET e == AttemptFailure(stageName, resp, attempt)
       IN /\ e # None
          /\ IF LastAttempt(attempt)
             THEN /\ Raise(e[1])
                  /\ UNCHANGED <<delay, waits>>
             ELSE /\ pc' = "backoff"
                  /\ delay' = BackoffDelay(attempt)
                  /\ waits' = Append(waits, <<attempt, BackoffDelay(attempt)>>)
                  /\ UNCHANGED error
    /\ UNCHANGED <<entry, outer, apiKeySet, base64Images, textData, stageName,
                   attempt, lastError, detection, grid, gridRepresentation,
                   classification, raw, normalized, result, requests>>

\* An attempt of callGemini ends in the catch block
CallFails ==
    /\ pc = "request"
    /\ \E resp \in StageResponses(stageName) : CallFailsWith(resp)

\* The timer of callGemini fires: the loop goes to its next attempt
BackoffElapsed ==
    /\ entry = "runExtractionPipeline"
    /\ pc = "backoff"
    /\ pc' = "request"
    /\ attempt' = attempt + 1
    /\ delay' = 0
    /\ requests' = [requests EXCEPT ![stageName] = @ + 1]
    /\ UNCHANGED <<entry, outer, apiKeySet, base64Images, textData, stageName,
                   lastError, detection, grid, gridRepresentation,
                   classification, raw, normalized, result, error, waits>>

\* Detection returns the payload of resp, which stops the pipeline
DetectionStopsWith(resp) ==
    /\ entry = "runExtractionPipeline"
    /\ pc = "request" /\ stageName = "DETECTION"
    /\ AttemptFailure("DETECTION", resp, attempt) = None
    /\ NoTable(resp.json)
    /\ detection' = Some(resp.json)
    /\ result' = Some(EmptyResult)
    /\ pc' = "done"
    /\ UNCHANGED <<entry, outer, apiKeySet, base64Images, textData, stageName,
                   attempt, delay, lastError, grid, gridRepresentation,
                   classification, raw, normalized, error, requests, waits>>

\* Detection returns a payload that stops the pipeline
DetectionStops ==
    /\ pc = "request" /\ stageName = "DETECTION"
    /\ \E resp \in StageResponses("DETECTION") : DetectionStopsWith(resp)

\* Detection returns the payload of resp, a table: STEP 2 builds the grid
\* and its dense representation, STEP 3 sends the classification prompt
DetectionProceedsWith(resp) ==
    /\ entry = "runExtractionPipeline"
    /\ pc = "request" /\ stageName = "DETECTION"
    /\ AttemptFailure("DETECTION", resp, attempt) = None
    /\ ~NoTable(resp.json)
    /\ detection' = Some(resp.json)
    /\ LET g == buildGrid(Page1(textData))
       IN /\ grid' = Some(g)
          /\ gridRepresentation' = Some(DenseGrid(g.rows, Len(g.headers)))
    /\ stageName' = "CLASSIFICATION"
    /\ attempt' = 1
    /\ requests' = [requests EXCEPT !.CLASSIFICATION = @ + 1]
    /\ UNCHANGED <<entry, outer, apiKeySet, base64Images, textData, pc, delay,
                   lastError, classification, raw, normalized, result, error,
                   waits>>

\* Detection returns a table
DetectionProceeds ==
    /\ pc = "request" /\ stageName = "DETECTION"
    /\ \E resp \in StageResponses("DETECTION") : DetectionProceedsWith(resp)

\* Classification returns the payload of resp: STEP 4 merges, STEP 5
\* normalizes and parses the outcome with CleanExtractionSchema, which throws
\* when it does not fit
ClassificationReturnsWith(resp) ==
    /\ entry = "runExtractionPipeline"
    /\ pc = "request" /\ stageName = "CLASSIFICATION"
    /\ AttemptFailure("CLASSIFICATION", resp, attempt) = None
    /\ classification' = Some(resp.json)
    /\ LET rawRecords == Merge(resp.json.rows, resp.json.columns,
                               grid[1].rows)
           arg == [records |-> rawRecords, notes |-> None]
           out == normalizeRecords(arg)
       IN /\ raw' = Some(arg)
          /\ normalized' = Some(out)
          /\ IF CleanExtractionSchema(out)
             THEN /\ result' = Some(out)
                  /\ pc' = "done"
                  /\ UNCHANGED error
             ELSE /\ Raise(Err("clean_schema", "", 0))
                  /\ UNCHANGED result
    /\ UNCHANGED <<entry, outer, apiKeySet, base64Images, textData, stageName,
                   attempt, delay, lastError, detection, grid,
                   gridRepresentation, requests, waits>>

\* Classification returns
ClassificationReturns ==
    /\ pc = "request" /\ stageName = "CLASSIFICATION"
    /\ \E resp \in StageResponses("CLASSIFICATION") :
          ClassificationReturnsWith(resp)

----------------------------------------------------------------------------
(* extractFinancialData with its validation layer: src/unnamed/part_002,    *)
(* lines 98-262                                                             *)

sMisc == <<"M", "i", "s", "c">>

\* The records of an answer of the single-stage prompt
SingleRecs ==
    {[lineItem |-> sRevenue, category |-> Some(sRevenue),
      sourceSnippet |-> Some(s100)],
     [lineItem |-> sMisc, category |-> Some(sOther),
      sourceSnippet |-> Some(s120)],
     [lineItem |-> sRevenue, category |-> None, sourceSnippet |-> None]}

SingleJsons == [records : SeqUpTo(SingleRecs, MaxSingleRecs)]

\* /revenue|expense|profit|income|cost|tax|result|loss/i.test(text)
HasKeyword(text) ==
    LET t == toLowerCase(text)
    IN \E w \in {<<"r", "e", "v", "e", "n", "u", "e">>,
                  <<"e", "x", "p", "e", "n", "s", "e">>,
                  <<"p", "r", "o", "f", "i", "t">>,
                  <<"i", "n", "c", "o", "m", "e">>,
                  <<"c", "o", "s", "t">>, <<"t", "a", "x">>,
                  <<"r", "e", "s", "u", "l", "t">>,
                  <<"l", "o", "s", "s">>} : includes(t, w)

\* r.category || ""
OrEmpty(opt) == IF opt = None THEN <<>> ELSE opt[1]

\* The validation layer without its keyword check
SingleFailureNoKeywords(resp, k) ==
    IF resp.kind = "service_error" THEN Some(Err("service", "", k))
    ELSE IF resp.kind = "not_json" THEN Some(Err("syntax", "", k))
         ELSE IF /\ Len(resp.json.records) > 0
                 /\ \E i \in 1..Len(resp.json.records) :
                        ~Truthy(resp.json.records[i].sourceSnippet)
              THEN Some(Err("evidence", "", k))
              ELSE None

\* The error the inner try block raises on attempt k, None when it reaches
\* "return json"
SingleFailure(resp, k) ==
    IF resp.kind = "service_error" THEN Some(Err("service", "", k))
    ELSE IF resp.kind = "not_json" THEN Some(Err("syntax", "", k))
         ELSE LET recs == resp.json.records
              IN IF /\ Len(recs) > 0
                    /\ \E i \in 1..Len(recs) : ~Truthy(recs[i].sourceSnippet)
                 THEN Some(Err("evidence", "", k))
                 ELSE IF /\ Len(recs) > 0
                         /\ ~\E i \in 1..Len(recs) :
                                \/ HasKeyword(recs[i].lineItem)
                                \/ HasKeyword(OrEmpty(recs[i].category))
                      THEN Some(Err("keywords", "", k))
                      ELSE None

RECURSIVE Pow2(_)
Pow2(n) == IF n = 0 THEN 1 ELSE 2 * Pow2(n - 1)

\* A fixed delay of one second
SingleBackoffFixed(k) == 1000

\* const delay = 1000 * Math.pow(2, attempt - 1)
SingleBackoffDelay(k) == 1000 * Pow2(k - 1)

\* The entry of extractFinancialData up to the first generateContent call
SingleStart ==
    /\ entry = "extractFinancialData"
    /\ pc = "start"
    /\ IF ~apiKeySet
       THEN /\ Raise(Err("config", "", 0))
            /\ UNCHANGED <<attempt, requests>>
       ELSE /\ pc' = "request"
            /\ attempt' = 1
            /\ requests' = [requests EXCEPT !.SINGLE = @ + 1]
            /\ UNCHANGED error
    /\ UNCHANGED <<entry, outer, apiKeySet, base64Images, textData, stageName, delay,
                   lastError, detection, grid, gridRepresentation,
                   classification, raw, normalized, result, waits>>

\* An attempt ends in the inner catch block, generateContent having come
\* to resp; after the last attempt the loop ends, lastError is thrown into
\* the outer catch block, and that throws a new error in its place
SingleFailsWith(resp) ==
    /\ entry = "extractFinancialData"
    /\ pc = "request"
    /\ LET e == SingleFailure(resp, attempt)
       IN /\ e # None
          /\ lastError' = e
          /\ IF attempt < MAX_RETRIES_SINGLE
             THEN /\ pc' = "backoff"
                  /\ delay' = SingleBackoffDelay(attempt)
                  /\ waits' = Append(waits,
                                     <<attempt, SingleBackoffDelay(attempt)>>)
                  /\ UNCHANGED error
             ELSE /\ Raise(Err("wrapped", "", 0))
                  /\ UNCHANGED <<delay, waits>>
    /\ UNCHANGED <<entry, outer, apiKeySet, base64Images, textData, stageName,
                   attempt, detection, grid, gridRepresentation,
                   classification, raw, normalized, result, requests>>

\* An attempt ends in the inner catch block
SingleFails ==
    /\ entry = "extractFinancialData"
    /\ pc = "request"
    /\ \E resp \in Responses(SingleJsons) : SingleFailsWith(resp)

\* The timer fires: the loop goes to its next attempt
SingleBackoffElapsed ==
    /\ entry = "extractFinancialData"
    /\ pc = "backoff"
    /\ pc' = "request"
    /\ attempt' = attempt + 1
    /\ delay' = 0
    /\ requests' = [requests EXCEPT !.SINGLE = @ + 1]
    /\ UNCHANGED <<entry, outer, apiKeySet, base64Images, textData, stageName,
                   lastError, detection, grid, gridRepresentation,
                   classification, raw, normalized, result, error, waits>>

\* An attempt passes the validation layer with the payload of resp:
\* "return json"
SingleReturnsWith(resp) ==
    /\ entry = "extractFinancialData"
    /\ pc = "request"
    /\ SingleFailure(resp, attempt) = None
    /\ result' = Some(resp.json)
    /\ pc' = "done"
    /\ UNCHANGED <<entry, outer, apiKeySet, base64Images, textData, stageName,
                   attempt, delay, lastError, detection, grid,
                   gridRepresentation, classification, raw, normalized, error,
                   requests, waits>>

\* An attempt passes the validation layer
SingleReturns ==
    /\ entry = "extractFinancialData"
    /\ pc = "request"
    /\ \E resp \in Responses(SingleJsons) : SingleReturnsWith(resp)

InitSingle ==
    /\ entry = "extractFinancialData"
    /\ images = None
    /\ apiKeySet \in BOOLEAN
    /\ base64Images \in {0, MaxImages}
    /\ textData = <<>>
    /\ raw = None
    /\ Idle
    /\ Solo
    /\ NoPage
    /\ NoLayout

----------------------------------------------------------------------------
(* The oracle clients and the pipeline *)

Init == InitPipeline \/ InitSingle

Next ==
    \/ Start
    \/ CallFails
    \/ BackoffElapsed
    \/ DetectionStops
    \/ DetectionProceeds
    \/ ClassificationReturns
    \/ SingleStart
    \/ SingleFails
    \/ SingleBackoffElapsed
    \/ SingleReturns

Spec == Init /\ [][Next]_vars

----------------------------------------------------------------------------
(* processFinancialStatement(images, textData): src/src/app/actions.ts,     *)
(* lines 56-87                                                              *)

\* The image lists the action is called with: absent, empty, one that fits
\* and one longer than the five pages the action passes on
ActionImages == {None, Some(0), Some(MaxImages), Some(6)}

\* The documents the action is called with: the first tokens of Document
ActionTextInputs == {SubSeq(Document, 1, n) : n \in 0..MaxTokens}

\* images.slice(0, 5).length
limitedImages(n) == Min({n, 5})

\* The message a failed generateContent call may carry; the service chooses
\* it, and it may be empty
ServiceMessages == {"", "fetch failed"}

\* error.message of the errors a run raises
MessageOf(e, serviceMessage) ==
    IF e.cause = "config" THEN "GEMINI_API_KEY is not set"
    ELSE IF e.cause = "schema"
         THEN (IF e.label = "DETECTION"
               THEN "Invalid JSON structure for DETECTION"
               ELSE "Invalid JSON structure for CLASSIFICATION")
         ELSE IF e.cause = "syntax" THEN "Unexpected token"
              ELSE IF e.cause = "clean_schema" THEN "ZodError"
                   ELSE serviceMessage

\* { success: false, error }
Failure(message) ==
    [success |-> FALSE, data |-> None, error |-> Some(message), raw |-> None]

\* { success: false, error: "AI returned invalid structure.", raw: data }
InvalidStructure(data) ==
    [success |-> FALSE, data |-> None,
     error |-> Some("AI returned invalid structure."), raw |-> Some(data)]

\* { success: true, data: validation.data }
Success(data) ==
    [success |-> TRUE, data |-> Some(data), error |-> None, raw |-> None]

\* The catch block answering with error.message as it is
OrUnknownAsIs(message) == message

\* error.message || "Unknown server error."
OrUnknown(message) == IF message = "" THEN "Unknown server error." ELSE message

\* The input check looking for an absent list only
NoImagesAbsentOnly(imgs) == imgs = None

\* !images || images.length === 0
NoImages(imgs) == imgs = None \/ imgs = Some(0)

InitAction ==
    /\ entry = "processFinancialStatement"
    /\ images \in ActionImages
    /\ apiKeySet \in BOOLEAN
    /\ base64Images = 0
    /\ textData \in ActionTextInputs
    /\ raw = None
    /\ Idle
    /\ Solo
    /\ NoPage
    /\ NoLayout

\* The action up to its call of runExtractionPipeline: it returns at once
\* when images is absent or empty
ActionStart ==
    /\ entry = "processFinancialStatement"
    /\ pc = "start"
    /\ IF NoImages(images)
       THEN /\ response' = Some(Failure("No images provided."))
            /\ pc' = "returned"
            /\ UNCHANGED <<entry, base64Images>>
       ELSE /\ entry' = "runExtractionPipeline"
            /\ base64Images' = limitedImages(images[1])
            /\ UNCHANGED <<response, pc>>
    /\ UNCHANGED <<outerButAction, images, apiKeySet, textData, stageName,
                   attempt, delay,
                   lastError, detection, grid, gridRepresentation,
                   classification, raw, normalized, result, error, requests,
                   waits>>

\* runExtractionPipeline has returned or raised inside the action: the
\* result is parsed with CleanExtractionSchema, an error is caught
ActionResolves ==
    /\ entry = "runExtractionPipeline"
    /\ images # None
    /\ pc \in {"done", "failed"}
    /\ entry' = "processFinancialStatement"
    /\ pc' = "returned"
    /\ IF pc = "done"
       THEN response' = Some(IF CleanExtractionSchema(result[1])
                             THEN Success(result[1])
                             ELSE InvalidStructure(result[1]))
       ELSE \E m \in ServiceMessages :
               response' = Some(Failure(OrUnknown(MessageOf(error[1], m))))
    /\ UNCHANGED <<outerButAction, images, apiKeySet, base64Images, textData,
                   stageName,
                   attempt, delay, lastError, detection, grid,
                   gridRepresentation, classification, raw, normalized,
                   result, error, requests, waits>>

NextAction ==
    \/ ActionStart
    \/ Start
    \/ CallFails
    \/ BackoffElapsed
    \/ DetectionStops
    \/ DetectionProceeds
    \/ ClassificationReturns
    \/ ActionResolves

SpecAction == InitAction /\ [][NextAction]_vars

----------------------------------------------------------------------------
(* normalizeRecords applied to arbitrary raw extractions *)

sUSD == <<"U", "S", "D">>

sNote == <<"o", "k">>

RawRec(y, v, sn, full) ==
    [category      |-> IF full THEN Some(sProfit) ELSE None,
     subCategory   |-> IF full THEN Some(sMisc) ELSE None,
     lineItem      |-> sRevenue,
     year          |-> y,
     value         |-> v,
     unit          |-> IF full THEN Some(sUSD) ELSE None,
     confidence    |-> IF full THEN Some(sLow) ELSE Some(<<"h", "i">>),
     sourceSnippet |-> sn]

\* Raw records: every combination of a year text, a value and a snippet
\* with the optional fields absent, and the years again with them present
RawRecordSet ==
    {RawRec(y, v, sn, FALSE) :
        y \in {s2024, sFY24, sFY123, sGarbage},
        v \in {StrVal(s100), StrVal(sNA), NumVal(NormNum(55, -1)), NullVal},
        sn \in {None, Some(<<>>), Some(s120)}}
      \cup {RawRec(y, StrVal(s100), Some(s120), TRUE) :
               y \in {s2024, sFY24, sFY123, sGarbage}}

RawInputs ==
    [records : SeqUpTo(RawRecordSet, MaxRaw), notes : {None, Some(sNote)}]

InitNorm ==
    /\ entry = "normalizeRecords"
    /\ images = None
    /\ apiKeySet = TRUE
    /\ base64Images = 0
    /\ textData = <<>>
    /\ raw \in {Some(r) : r \in RawInputs}
    /\ Idle
    /\ Solo
    /\ NoPage
    /\ NoLayout

\* normalizeRecords(raw) is called and returns
Normalize ==
    /\ entry = "normalizeRecords"
    /\ pc = "start"
    /\ normalized' = Some(normalizeRecords(raw[1]))
    /\ result' = Some(normalizeRecords(raw[1]))
    /\ pc' = "done"
    /\ UNCHANGED <<entry, outer, apiKeySet, base64Images, textData, stageName,
                   attempt, delay, lastError, detection, grid,
                   gridRepresentation, classification, raw, error, requests,
                   waits>>

NextNorm == Normalize

SpecNorm == InitNorm /\ [][NextNorm]_vars
----------------------------------------------------------------------------
(* normalizeRecords applied to one record whose year or value text is      *)
(* arbitrary, to records that are already clean, and to its own result     *)

sDollars == <<"$", "1", ",", "2", "3", "4", ".", "0", "0">>

sParen500 == <<"(", "5", "0", "0", ")">>

s1e3 == <<"1", "e", "3">>

s100abc == <<"1", "0", "0", "a", "b", "c">>

sFY25 == <<"F", "Y", "2", "5">>

sFY2024 == <<"F", "Y", "2", "0", "2", "4">>

sFY1999 == <<"F", "Y", "1", "9", "9", "9">>

s1999 == <<"1", "9", "9", "9">>

sDate == <<"3", "1", "/", "1", "2", "/", "2", "0", "2", "4">>

YearAlphabet == {"F", "Y", "2", "0", "5", " ", "x"}

ValueAlphabet == {"1", ",", "(", ")", ".", "-", " ", "x"}

\* The year texts a raw record may carry
YearTexts ==
    {sFY25, sFY2024, sFY1999, s1999, sDate, sGarbage, <<"f", "y", "2", "5">>,
     <<"F", "Y", " ", "2", "5">>, <<"F", "Y", "2", "2", "2">>,
     <<"F", "Y", " ", " ", "2", "5">>,
     <<"x", "2", "0", "2", "5">>, <<"x", "F", "Y", "2", "5">>}
      \cup SeqUpTo(YearAlphabet, MaxYearLen)

\* The value texts a raw record may carry
ValueTexts ==
    {sDollars, sParen500, sNA, s1e3, s100abc}
      \cup SeqUpTo(ValueAlphabet, MaxValueLen)

\* Raw records that already fit CleanRecordSchema
CleanShaped ==
    {[category      |-> Some(sProfit),
      subCategory   |-> sc,
      lineItem      |-> sRevenue,
      year          |-> y,
      value         |-> v,
      unit          |-> u,
      confidence    |-> Some(sLow),
      sourceSnippet |-> Some(sn)] :
        sc \in {None, Some(sMisc)},
        y \in {s2024, s1999},
        v \in {NumVal(NormNum(55, -1)), NullVal},
        u \in {None, Some(sUSD)},
        sn \in {<<>>, s120}}

TextInputRecords ==
    {<<RawRec(y, StrVal(s100), Some(s120), FALSE)>> : y \in YearTexts}
      \cup {<<RawRec(s2024, StrVal(v), Some(s120), FALSE)>> : v \in ValueTexts}
      \cup SeqUpTo(CleanShaped, MaxRaw)

InitText ==
    /\ entry = "normalizeRecords"
    /\ images = None
    /\ apiKeySet = TRUE
    /\ base64Images = 0
    /\ textData = <<>>
    /\ raw \in {Some([records |-> rs, notes |-> None]) : rs \in TextInputRecords}
    /\ Idle
    /\ Solo
    /\ NoPage
    /\ NoLayout

\* A clean record as the argument of normalizeRecords reads it
AsRawRecord(c) ==
    [category      |-> Some(c.category),
     subCategory   |-> c.subCategory,
     lineItem      |-> c.lineItem,
     year          |-> c.year,
     value         |-> IF c.value.k = "null" THEN NullVal ELSE NumVal(c.value),
     unit          |-> c.unit,
     confidence    |-> Some(c.confidence),
     sourceSnippet |-> Some(c.sourceSnippet)]

\* normalizeRecords is called on the result of normalizeRecords
NormalizeAgain ==
    /\ entry = "normalizeRecords"
    /\ pc = "done"
    /\ renormalized = None
    /\ renormalized' =
          Some(normalizeRecords(
                  [records |-> [i \in 1..Len(result[1].records) |->
                                   AsRawRecord(result[1].records[i])],
                   notes   |-> Some(result[1].notes)]))
    /\ UNCHANGED <<entry, outerButText, apiKeySet, base64Images, textData, pc,
                   stageName, attempt, delay, lastError, detection, grid,
                   gridRepresentation, classification, raw, normalized,
                   result, error, requests, waits>>

NextText ==
    \/ Normalize
    \/ NormalizeAgain

SpecText == InitText /\ [][NextText]_vars

----------------------------------------------------------------------------
(* Two concurrent runs of runExtractionPipeline: src/src/lib/pipeline.ts.
   A run gives up control only at its awaits, so each action of the pipeline
   is one uninterrupted piece of a run; between two actions the other run
   may go on.  The variables of the pipeline describe the run that goes on,
   `other` holds the suspended one.  The runs share process.env and the
   layoutEngine object, whose fields are the three tolerances. *)

ServiceError == [kind |-> "service_error", json |-> <<>>]

NotJson == [kind |-> "not_json", json |-> <<>>]

Json(j) == [kind |-> "json", json |-> j]

DetTable ==
    [hasTable |-> "true", tableType |-> "income_statement",
     confidence |-> "high"]

DetLow ==
    [hasTable |-> "true", tableType |-> "income_statement",
     confidence |-> "low"]

DetBad ==
    [hasTable |-> "1", tableType |-> "income_statement",
     confidence |-> "high"]

ClsBoth ==
    [columns |-> <<[index |-> 1, type |-> "year", year |-> Some(s2024)],
                   [index |-> 2, type |-> "year", year |-> Some(s2023)]>>,
     rows    |-> <<[index |-> 0, category |-> sRevenue]>>]

ClsFY ==
    [columns |-> <<[index |-> 1, type |-> "year", year |-> Some(sFY123)]>>,
     rows    |-> <<[index |-> 0, category |-> sRevenue]>>]

ClsBad ==
    [columns |-> <<[index |-> 1, type |-> "annual", year |-> Some(s2024)]>>,
     rows    |-> <<[index |-> 0, category |-> sRevenue]>>]

\* What the oracle answers to the successive requests of one run
TwoScripts ==
    {<<Json(DetTable), Json(ClsBoth)>>,
     <<ServiceError, Json(DetTable), Json(ClsBad), Json(ClsBoth)>>,
     <<Json(DetLow)>>,
     <<NotJson, Json(DetBad)>>,
     <<Json(DetTable), ServiceError, NotJson>>,
     <<Json(DetTable), Json(ClsFY)>>}

\* The documents of the two runs: one and two numbers on the line
TwoTexts == {SubSeq(Document, 1, 2), SubSeq(Document, 1, 3)}

\* The locals of the run that goes on
RunContext ==
    [self |-> self, script |-> script, base64Images |-> base64Images,
     textData |-> textData, pc |-> pc, stageName |-> stageName,
     attempt |-> attempt, delay |-> delay, lastError |-> lastError,
     detection |-> detection, grid |-> grid,
     gridRepresentation |-> gridRepresentation,
     classification |-> classification, raw |-> raw,
     normalized |-> normalized, result |-> result, error |-> error,
     requests |-> requests, waits |-> waits]

\* The locals of a run that was called and has not yet run
Fresh(id, imgs, text, scr) ==
    [self |-> id, script |-> scr, base64Images |-> imgs, textData |-> text,
     pc |-> "start", stageName |-> "", attempt |-> 0, delay |-> 0,
     lastError |-> None, detection |-> None, grid |-> None,
     gridRepresentation |-> None, classification |-> None, raw |-> None,
     normalized |-> None, result |-> None, error |-> None,
     requests |-> NoRequests, waits |-> <<>>]

InitTwo ==
    /\ entry = "runExtractionPipeline"
    /\ images = None
    /\ apiKeySet \in BOOLEAN
    /\ base64Images = MaxImages
    /\ textData \in TwoTexts
    /\ raw = None
    /\ Idle
    /\ self = 1
    /\ script \in TwoScripts
    /\ other \in {Some(Fresh(2, MaxImages, text, scr)) :
                     text \in TwoTexts, scr \in TwoScripts}
    /\ NoPage
    /\ NoLayout

\* The suspended run finding the grid the running one built, as it would
\* were the grid kept in the layoutEngine
ResumedOnSharedGrid ==
    [other[1] EXCEPT !.grid = IF grid # None THEN grid ELSE @]

\* The run that resumes: each run's variables are locals of its own call
Resumed == other[1]

\* The run that goes on is left at an await (or before its first step, or
\* after its last) and the other one goes on
SwitchTo(r) ==
    /\ other' = Some(RunContext)
    /\ self' = r.self
    /\ script' = r.script
    /\ base64Images' = r.base64Images
    /\ textData' = r.textData
    /\ pc' = r.pc
    /\ stageName' = r.stageName
    /\ attempt' = r.attempt
    /\ delay' = r.delay
    /\ lastError' = r.lastError
    /\ detection' = r.detection
    /\ grid' = r.grid
    /\ gridRepresentation' = r.gridRepresentation
    /\ classification' = r.classification
    /\ raw' = r.raw
    /\ normalized' = r.normalized
    /\ result' = r.result
    /\ error' = r.error
    /\ requests' = r.requests
    /\ waits' = r.waits
    /\ UNCHANGED <<entry, outerButTwo, apiKeySet>>

Switch ==
    /\ entry = "runExtractionPipeline"
    /\ other # None
    /\ SwitchTo(Resumed)

\* The request the run awaits has its answer in the script
Answered ==
    /\ pc = "request"
    /\ requests.DETECTION + requests.CLASSIFICATION \in 1..Len(script)

\* The answer to the request the run awaits
Answer == script[requests.DETECTION + requests.CLASSIFICATION]

ScriptedCallFails ==
    /\ Answered
    /\ Answer \in StageResponses(stageName)
    /\ CallFailsWith(Answer)

ScriptedDetectionStops ==
    /\ Answered
    /\ Answer \in StageResponses("DETECTION")
    /\ DetectionStopsWith(Answer)

ScriptedDetectionProceeds ==
    /\ Answered
    /\ Answer \in StageResponses("DETECTION")
    /\ DetectionProceedsWith(Answer)

ScriptedClassificationReturns ==
    /\ Answered
    /\ Answer \in StageResponses("CLASSIFICATION")
    /\ ClassificationReturnsWith(Answer)

NextTwo ==
    \/ Start
    \/ ScriptedCallFails
    \/ BackoffElapsed
    \/ ScriptedDetectionStops
    \/ ScriptedDetectionProceeds
    \/ ScriptedClassificationReturns
    \/ Switch

SpecTwo == InitTwo /\ [][NextTwo]_vars

\* callGemini run by itself for stage: attempt k gets the answer scr[i]
RECURSIVE StageCall(_, _, _, _)
StageCall(stage, scr, i, k) ==
    IF AttemptFailure(stage, scr[i], k) = None
    THEN [err |-> None, json |-> scr[i].json, next |-> i + 1]
    ELSE IF LastAttempt(k)
         THEN [err |-> AttemptFailure(stage, scr[i], k), json |-> <<>>,
               next |-> i + 1]
         ELSE StageCall(stage, scr, i + 1, k + 1)

\* STEP 4 and STEP 5 of runExtractionPipeline on the classification cls
MergedOutcome(text, cls) ==
    normalizeRecords([records |-> Merge(cls.rows, cls.columns,
                                        buildGrid(Page1(text)).rows),
                      notes |-> None])

Returned(out) == [result |-> Some(out), error |-> None]

Thrown(e) == [result |-> None, error |-> Some(e)]

CleanOrThrown(out) ==
    IF CleanExtractionSchema(out) THEN Returned(out)
    ELSE Thrown(Err("clean_schema", "", 0))

\* STEP 3 to STEP 5, the classification call having come to cls
AfterClassification(text, cls) ==
    IF cls.err # None THEN Thrown(cls.err[1])
    ELSE CleanOrThrown(MergedOutcome(text, cls.json))

\* STEP 1 on, the detection call having come to det
AfterDetection(text, scr, det) ==
    IF det.err # None THEN Thrown(det.err[1])
    ELSE IF NoTable(det.json) THEN Returned(EmptyResult)
         ELSE AfterClassification(text,
                  StageCall("CLASSIFICATION", scr, det.next, 1))

\* What runExtractionPipeline comes to when it runs by itself from its
\* first line to its last on the tokens text, the oracle answering scr
Alone(key, text, scr) ==
    IF ~key THEN Thrown(Err("config", "", 0))
    ELSE AfterDetection(text, scr, StageCall("DETECTION", scr, 1, 1))

----------------------------------------------------------------------------
(* The App component: src/src/app/actions.ts.  React runs an event handler
   up to its first await and renders before the next event, so the controls
   the user finds are those of the state the last piece of code left. *)

\* The uploads a user makes in one visit of the page
MaxUploads == 3

\* The files a user may pick
Files == {"a.pdf", "b.pdf"}

\* useState(false), useState(0), useState(''), useState(null) ...
InitialApp ==
    [loading |-> FALSE, progress |-> 0, status |-> <<>>, data |-> None,
     error |-> None, pdfFile |-> None]

\* What processFinancialStatement may resolve to
CallResults ==
    {Success(EmptyResult),
     Success([records |-> <<>>, yearsDetected |-> <<s2024>>, notes |-> None]),
     Failure("No images provided."),
     Failure("GEMINI_API_KEY is not set"),
     InvalidStructure(EmptyResult)}

\* The numbers of page images convertPdfToImages may resolve to
PageCounts == {0, MaxImages}

InitUI ==
    /\ entry = "App"
    /\ images = None
    /\ apiKeySet = TRUE
    /\ base64Images = 0
    /\ textData = <<>>
    /\ raw = None
    /\ Idle
    /\ Solo
    /\ app = InitialApp
    /\ handlers = <<>>
    /\ NoLayout

\* The variables of the extraction functions, which the page does not hold
runVars ==
    <<apiKeySet, base64Images, textData, pc, stageName, attempt, delay,
      lastError, detection, grid, gridRepresentation, classification, raw,
      normalized, result, error, requests, waits>>

\* disabled={loading} of the file input
InputDisabled(a) == a.loading

\* A reset button shown whatever the state
ResetAlwaysAvailable(a) == TRUE

\* The "Try Again" button is rendered in {error && ...}, the "New Document"
\* button in {data && ...}; both call handleReset
ResetAvailable(a) == a.error # None \/ a.data # None

\* err.message || "Failed to process document."
OrFailed(message) ==
    IF message = "" THEN "Failed to process document." ELSE message

\* The catch block of handleUpload followed by its finally block
Caught(a, message) ==
    [a EXCEPT !.error = Some(OrFailed(message)),
              !.status = <<"Error occurred.">>,
              !.loading = FALSE]

\* The change event of the file input: handleUpload up to its first await
Upload ==
    /\ entry = "App"
    /\ ~InputDisabled(app)
    /\ Len(handlers) < MaxUploads
    /\ \E file \in {None} \cup {Some(f) : f \in Files} :
          IF file = None
          THEN UNCHANGED <<app, handlers>>
          ELSE /\ app' = [app EXCEPT !.pdfFile = file,
                                     !.loading = TRUE,
                                     !.progress = 10,
                                     !.status = <<"Reading PDF pages...">>,
                                     !.error = None,
                                     !.data = None]
               /\ handlers' = Append(handlers, [file |-> file[1],
                                                 at |-> "converting"])
    /\ UNCHANGED <<entry, outerButUI, runVars>>

\* Promise.all settles for the i-th call of handleUpload: the call goes on
\* to processFinancialStatement, or to its catch block on a rejection
ConversionSettlesFor(i) ==
    /\ handlers[i].at = "converting"
    /\ \/ \E n \in PageCounts :
             /\ app' = [app EXCEPT !.progress = 40,
                                   !.status = <<"Analyzing", n>>]
             /\ handlers' = [handlers EXCEPT ![i].at = "calling"]
       \/ \E m \in ServiceMessages :
             /\ app' = Caught(app, m)
             /\ handlers' = [handlers EXCEPT ![i].at = "returned"]
    /\ UNCHANGED <<entry, outerButUI, runVars>>

ConversionSettles ==
    /\ entry = "App"
    /\ \E i \in DOMAIN handlers : ConversionSettlesFor(i)

\* processFinancialStatement settles for the i-th call of handleUpload
CallSettlesFor(i) ==
    /\ handlers[i].at = "calling"
    /\ \/ \E r \in CallResults :
             IF r.success
             THEN app' = [app EXCEPT !.progress = 100,
                                     !.status = <<"Analysis Complete!">>,
                                     !.data = r.data,
                                     !.loading = FALSE]
             ELSE app' = Caught(app, r.error[1])
       \/ \E m \in ServiceMessages : app' = Caught(app, m)
    /\ handlers' = [handlers EXCEPT ![i].at = "returned"]
    /\ UNCHANGED <<entry, outerButUI, runVars>>

CallSettles ==
    /\ entry = "App"
    /\ \E i \in DOMAIN handlers : CallSettlesFor(i)

\* A click on "Try Again" or "New Document": handleReset
Reset ==
    /\ entry = "App"
    /\ ResetAvailable(app)
    /\ app' = [app EXCEPT !.data = None, !.pdfFile = None, !.status = <<>>,
                          !.progress = 0, !.error = None, !.loading = FALSE]
    /\ UNCHANGED <<handlers, entry, outerButUI, runVars>>

NextUI ==
    \/ Upload
    \/ ConversionSettles
    \/ CallSettles
    \/ Reset

SpecUI == InitUI /\ [][NextUI]_vars

\* The promises handleUpload awaits settle
SpecUILive ==
    /\ InitUI /\ [][NextUI]_vars
    /\ WF_vars(ConversionSettles)
    /\ WF_vars(CallSettles)

----------------------------------------------------------------------------
(* buildGrid taken step by step: src/unnamed/part_002.  The forEach of
   groupByRows is taken one token at a time; the sort of the rows,
   detectColumns and alignCellsToColumns are one step each. *)

\* The x and y coordinates of the tokens: 50 and 70 are COLUMN_TOLERANCE_X
\* apart and 91 is one more away; 700, 704 and 706 are within and beyond
\* ROW_TOLERANCE_Y of each other
GridXs == {50, 70, 91}

GridYs == {650, 700, 704, 706}

Token(x, y, str) == [page |-> 1, x |-> x, y |-> y, str |-> str]

GridTokens ==
    {Token(x, y, s100) : x \in GridXs, y \in GridYs}
      \cup {Token(50, 700, sNA), Token(91, 704, sNA)}

\* A chain of x values 20 apart: the cluster is wide and its mean is 30
\* away from its ends
WideCluster ==
    <<Token(0, 700, s100), Token(20, 650, s100), Token(40, 700, s120),
      Token(60, 650, sNA)>>

\* A cluster of mean 31, which is MATCH_TOLERANCE + 1 away from its first x
OffByOne ==
    <<Token(45, 700, s100), Token(0, 700, s120), Token(20, 650, s100),
      Token(50, 650, s100), Token(40, 600, sNA)>>

\* Two clusters of means 36 and 84, both 24 away from the x 60
Tie ==
    <<Token(60, 700, s100), Token(0, 700, s120), Token(84, 700, sNA),
      Token(20, 650, s100), Token(40, 650, s100), Token(60, 600, s120)>>

\* Tokens in ascending x, each more than COLUMN_TOLERANCE_X after the last
Spread ==
    <<Token(0, 700, s100), Token(21, 700, s120), Token(60, 650, s100),
      Token(100, 700, sNA)>>

\* The token lists given to buildGrid
GridInputs ==
    SeqUpTo(GridTokens, MaxGridTokens)
      \cup {WideCluster, OffByOne, Tie, Spread}

InitGrid ==
    /\ entry = "buildGrid"
    /\ images = None
    /\ apiKeySet = TRUE
    /\ base64Images = 0
    /\ textData = <<>>
    /\ raw = None
    /\ Idle
    /\ Solo
    /\ NoPage
    /\ layout \in {Some([items |-> s, seen |-> 0, rows |-> <<>>,
                         globalColumns |-> None, at |-> "groupByRows"]) :
                      s \in GridInputs}

\* One iteration of items.forEach in groupByRows
GroupItem ==
    /\ entry = "buildGrid"
    /\ layout[1].at = "groupByRows"
    /\ layout[1].seen < Len(layout[1].items)
    /\ layout' = Some([layout[1] EXCEPT
                         !.rows = AddItem(@, layout[1].items[layout[1].seen + 1]),
                         !.seen = @ + 1])
    /\ UNCHANGED <<entry, outerButLayout, runVars>>

\* groupByRows returns and buildGrid sorts the rows
SortRows ==
    /\ entry = "buildGrid"
    /\ layout[1].at = "groupByRows"
    /\ layout[1].seen = Len(layout[1].items)
    /\ layout' = Some([layout[1] EXCEPT !.rows = SortRowsDesc(@),
                                        !.at = "detectColumns"])
    /\ UNCHANGED <<entry, outerButLayout, runVars>>

DetectColumns ==
    /\ entry = "buildGrid"
    /\ layout[1].at = "detectColumns"
    /\ layout' = Some([layout[1] EXCEPT
                         !.globalColumns = Some(detectColumns(layout[1].rows)),
                         !.at = "alignCellsToColumns"])
    /\ UNCHANGED <<entry, outerButLayout, runVars>>

\* alignCellsToColumns, after which buildGrid returns
AlignCells ==
    /\ entry = "buildGrid"
    /\ layout[1].at = "alignCellsToColumns"
    /\ layout' = Some([layout[1] EXCEPT
                         !.rows = alignCellsToColumns(@,
                                      layout[1].globalColumns[1]),
                         !.at = "returned"])
    /\ UNCHANGED <<entry, outerButLayout, runVars>>

NextGrid ==
    \/ GroupItem
    \/ SortRows
    \/ DetectColumns
    \/ AlignCells

SpecGrid == InitGrid /\ [][NextGrid]_vars

----------------------------------------------------------------------------
(* A run of runExtractionPipeline whose awaits all settle: every
   generateContent call resolves or rejects and every setTimeout fires. *)

InitRun ==
    /\ InitPipeline
    /\ base64Images = MaxImages
    /\ textData \in TwoTexts

NextRun ==
    \/ Start
    \/ CallFails
    \/ BackoffElapsed
    \/ DetectionStops
    \/ DetectionProceeds
    \/ ClassificationReturns

SpecRun == InitRun /\ [][NextRun]_vars /\ WF_vars(NextRun)

----------------------------------------------------------------------------
(* Properties *)

Pipeline == entry = "runExtractionPipeline"

\* C1: whenever the detection stage returned hasTable=false or
\* confidence=low, the run has ended with exactly the empty result
\* {records: [], yearsDetected: [], notes: "No financial table detected."},
\* and in that run no grid was built and no classification request made.
C1_NoTableStops ==
    (/\ Pipeline
     /\ detection # None
     /\ (detection[1].hasTable = "false" \/ detection[1].confidence = "low"))
    => /\ pc = "done"
       /\ error = None
       /\ result = Some([records |-> <<>>, yearsDetected |-> <<>>,
                         notes |-> sNoTable])
       /\ grid = None
       /\ gridRepresentation = None
       /\ classification = None
       /\ requests.CLASSIFICATION = 0

\* A run stopped on a low-confidence detection of a table, returned by the
\* second detection attempt, for a document that has text
C1_Witness ==
    /\ Pipeline
    /\ pc = "done"
    /\ detection # None
    /\ detection[1].hasTable = "true" /\ detection[1].confidence = "low"
    /\ requests.DETECTION = 2
    /\ Len(textData) = MaxTokens

\* C2: whatever records the merge produced, the run returns a result: once
\* classification has returned, the run is done and has not raised.
C2_RunSurvivesBadRecords ==
    (Pipeline /\ classification # None)
    => (pc = "done" /\ result # None /\ error = None)

\* C3: every record normalizeRecords returns has a year of exactly four
\* digits.
C3_YearFourDigits ==
    (entry = "normalizeRecords" /\ normalized # None)
    => \A i \in 1..Len(normalized[1].records) :
          LET y == normalized[1].records[i].year
          IN Len(y) = 4 /\ \A c \in 1..Len(y) : y[c] \in Digits

\* The raw records of the input that carry evidence
WithEvidence(records) ==
    {i \in 1..Len(records) :
        records[i].sourceSnippet # None /\ records[i].sourceSnippet[1] # <<>>}

\* C4: every record normalizeRecords returns has a non-empty sourceSnippet,
\* which is the snippet of a raw record, and no more records come out than
\* raw records with a non-empty snippet went in.
C4_Evidence ==
    (entry = "normalizeRecords" /\ result # None)
    => /\ \A i \in 1..Len(result[1].records) :
             /\ result[1].records[i].sourceSnippet # <<>>
             /\ \E j \in WithEvidence(raw[1].records) :
                    raw[1].records[j].sourceSnippet
                      = Some(result[1].records[i].sourceSnippet)
       /\ Len(result[1].records) <= Cardinality(WithEvidence(raw[1].records))

\* Two raw records with a good year and value, the first with an empty
\* snippet and the second with a snippet: one record comes out
C4_Witness ==
    /\ entry = "normalizeRecords"
    /\ result # None
    /\ Len(raw[1].records) = 2
    /\ \A i \in 1..2 : /\ raw[1].records[i].year = s2024
                        /\ raw[1].records[i].value = StrVal(s100)
    /\ raw[1].records[1].sourceSnippet = Some(<<>>)
    /\ raw[1].records[2].sourceSnippet = Some(s120)
    /\ Len(result[1].records) = 1

\* The pairs <<i, j>> of a classified row and a classified column for which
\* the grid has a row, the column is a year column with a year, and some
\* cell of the row aligned to the column has text
MergeSources ==
    {ij \in (1..Len(classification[1].rows))
               \X (1..Len(classification[1].columns)) :
        LET classRow == classification[1].rows[ij[1]]
            classCol == classification[1].columns[ij[2]]
        IN /\ classRow.index \in 0..(Len(grid[1].rows) - 1)
           /\ classCol.type = "year"
           /\ classCol.year # None /\ classCol.year[1] # <<>>
           /\ \E c \in 1..Len(grid[1].rows[classRow.index + 1].cells) :
                 LET cell == grid[1].rows[classRow.index + 1].cells[c]
                 IN cell.colIndex = Some(classCol.index) /\ cell.text # <<>>}

\* C5: every record the merge emits has as value the text of a cell of a
\* classified grid row aligned to a column classified as a year column with
\* a year (and that text is the text of a page-1 token); no other row,
\* column or cell yields a record, and the merge raises nothing.
C5_NoInventedValue ==
    (Pipeline /\ classification # None)
    => /\ raw # None
       /\ \A k \in 1..Len(raw[1].records) :
             LET rec == raw[1].records[k]
             IN /\ \E ij \in MergeSources :
                      LET classRow == classification[1].rows[ij[1]]
                          classCol == classification[1].columns[ij[2]]
                          cells == grid[1].rows[classRow.index + 1].cells
                      IN /\ rec.category = Some(classRow.category)
                         /\ Some(rec.year) = classCol.year
                         /\ \E c \in 1..Len(cells) :
                               /\ cells[c].colIndex = Some(classCol.index)
                               /\ rec.value = StrVal(cells[c].text)
                /\ \E t \in 1..Len(textData) :
                      /\ textData[t].page = 1
                      /\ rec.value = StrVal(textData[t].str)
       /\ Len(raw[1].records) <= Cardinality(MergeSources)

\* A merge that emitted a record next to a column that is not a year
\* column, from a grid of two rows
C5_Witness ==
    /\ Pipeline
    /\ raw # None
    /\ Len(raw[1].records) = 1
    /\ Len(grid[1].rows) = 2
    /\ \E j \in 1..Len(classification[1].columns) :
          classification[1].columns[j].type = "quarter"

AllDigits(s) == s # <<>> /\ \A c \in 1..Len(s) : s[c] \in Digits

\* The clean record the end-to-end rule promises for category c, the row
\* cells, the year y and the cell text v
Promised(c, cells, y, v) ==
    [category      |-> c,
     subCategory   |-> None,
     lineItem      |-> cells[1].text,
     year          |-> y,
     value         |-> [k |-> "fin", m |-> DigitsValue(v), p |-> 0],
     unit          |-> Some(sCrores),
     confidence    |-> sHigh,
     sourceSnippet |-> cells[1].text \o <<":", " ">> \o v]

\* C6: once classification has returned, for every classified row on the
\* grid and every column classified as a year column with a four-digit year
\* y, each cell of the row aligned to the column that holds digits v has its
\* record {category, lineItem: the row's first cell, year: y, value: v,
\* confidence High, sourceSnippet "<lineItem>: <v>", unit Crores,
\* subCategory null} in the result; and the row [Revenue, 100, 120] with
\* column 1 = 2024, column 2 = 2023, row 0 = Revenue gives exactly the two
\* records and yearsDetected = [2023, 2024].
C6_EndToEnd ==
    (Pipeline /\ classification # None)
    => /\ \A i \in 1..Len(classification[1].rows) :
          \A j \in 1..Len(classification[1].columns) :
             LET classRow == classification[1].rows[i]
                 classCol == classification[1].columns[j]
             IN (/\ classRow.index \in 0..(Len(grid[1].rows) - 1)
                 /\ classCol.type = "year"
                 /\ classCol.year # None
                 /\ Len(classCol.year[1]) = 4 /\ AllDigits(classCol.year[1]))
                => LET cells == grid[1].rows[classRow.index + 1].cells
                   IN \A c \in 1..Len(cells) :
                         (/\ cells[c].colIndex = Some(classCol.index)
                          /\ AllDigits(cells[c].text))
                         => /\ result # None
                            /\ \E k \in 1..Len(result[1].records) :
                                  result[1].records[k]
                                    = Promised(classRow.category, cells,
                                               classCol.year[1], cells[c].text)
       /\ (/\ textData = <<Document[1], Document[2], Document[3]>>
           /\ classification[1].columns
                = <<[index |-> 1, type |-> "year", year |-> Some(s2024)],
                    [index |-> 2, type |-> "year", year |-> Some(s2023)]>>
           /\ classification[1].rows = <<[index |-> 0, category |-> sRevenue]>>)
          => result = Some([records |->
                               <<Promised(sRevenue, <<[text |-> sRevenue]>>,
                                          s2024, s100),
                                 Promised(sRevenue, <<[text |-> sRevenue]>>,
                                          s2023, s120)>>,
                            yearsDetected |-> <<s2023, s2024>>,
                            notes |-> <<>>])

\* C7: a payload a stage call returned to the pipeline passed that stage's
\* schema, and a stage that raised returned nothing.
C7_OnlyValidPayloads ==
    Pipeline
    => /\ detection # None
            => /\ detection[1].hasTable \in {"true", "false"}
               /\ detection[1].tableType
                    \in {"income_statement", "balance_sheet", "cash_flow",
                         "other", "unknown"}
               /\ detection[1].confidence \in {"high", "medium", "low"}
       /\ classification # None
            => /\ \A i \in 1..Len(classification[1].columns) :
                     classification[1].columns[i].type
                       \in {"quarter", "nine_months", "year", "unknown"}
               /\ \A i \in 1..Len(classification[1].rows) :
                     classification[1].rows[i].category
                       \in {sRevenue, sExpenses, sProfit, sOther}
       /\ (pc = "failed" /\ error[1].cause = "schema")
            => /\ stageName = "DETECTION" => detection = None
               /\ stageName = "CLASSIFICATION" => classification = None

\* Both stages returned a payload on their second attempt
C7_Witness ==
    /\ Pipeline
    /\ pc = "done"
    /\ classification # None
    /\ Len(classification[1].columns) = 2
    /\ requests.DETECTION = 2
    /\ requests.CLASSIFICATION = 2

\* The run raised because an oracle call used up its attempts
Exhausted ==
    /\ pc = "failed"
    /\ \/ Pipeline /\ error[1].cause \in {"service", "syntax", "schema"}
       \/ entry = "extractFinancialData" /\ error[1].cause = "wrapped"

\* C8: no oracle call makes more than MAX attempts (2 in callGemini, 3 in
\* extractFinancialData); a call that raises has made exactly MAX attempts
\* and returned nothing; and after a call has returned or raised, it makes
\* no further attempt.
C8_RetryExhaustion ==
    /\ [](/\ requests.DETECTION <= 2
          /\ requests.CLASSIFICATION <= 2
          /\ requests.SINGLE <= 3
          /\ Exhausted
               => /\ result = None
                  /\ Pipeline => /\ requests[stageName] = 2
                                 /\ stageName = "DETECTION" => detection = None
                                 /\ classification = None
                  /\ ~Pipeline => requests.SINGLE = 3)
    /\ [][/\ detection # None => requests'.DETECTION = requests.DETECTION
          /\ classification # None
               => requests'.CLASSIFICATION = requests.CLASSIFICATION
          /\ (result # None \/ error # None) => requests' = requests]_vars

\* The classification call raised on a schema violation after two attempts
C8_Witness ==
    /\ Pipeline
    /\ Exhausted
    /\ stageName = "CLASSIFICATION"
    /\ error[1].cause = "schema"
    /\ requests.CLASSIFICATION = 2

RECURSIVE TwoTo(_)
TwoTo(n) == IF n <= 0 THEN 1 ELSE 2 * TwoTo(n - 1)

MaxAttempts == IF Pipeline THEN 2 ELSE 3

\* The oracle calls the run has started
CallsStarted ==
    Cardinality({st \in {"DETECTION", "CLASSIFICATION", "SINGLE"} :
                    requests[st] > 0})

\* C9: every wait follows a failed attempt k < MAX and lasts 1000 ms times
\* 2^(k-1); every attempt after the first of a call was preceded by a wait;
\* no wait is pending once the run has returned or raised.
C9_BackoffSchedule ==
    /\ [](/\ \A i \in 1..Len(waits) :
                /\ waits[i][1] \in 1..(MaxAttempts - 1)
                /\ waits[i][2] = 1000 * TwoTo(waits[i][1] - 1)
          /\ pc = "backoff"
               => /\ attempt < MaxAttempts
                  /\ delay = 1000 * TwoTo(attempt - 1)
                  /\ waits[Len(waits)] = <<attempt, delay>>
          /\ pc # "backoff" => delay = 0
          /\ requests.DETECTION + requests.CLASSIFICATION + requests.SINGLE
               = CallsStarted + Len(waits) - (IF pc = "backoff" THEN 1 ELSE 0))
    /\ [][/\ pc' = "backoff" => (pc = "request" /\ attempt < MaxAttempts)
          /\ pc \in {"done", "failed"} => waits' = waits]_vars

\* extractFinancialData waiting 2000 ms after its second failed attempt
C9_Witness ==
    /\ entry = "extractFinancialData"
    /\ pc = "backoff"
    /\ attempt = 2
    /\ delay = 2000
    /\ waits = <<<<1, 1000>>, <<2, 2000>>>>

\* A stage call of the pipeline raised after its last attempt
StageExhausted ==
    /\ Pipeline
    /\ pc = "failed"
    /\ error[1].cause \in {"service", "syntax", "schema"}

ByAction == entry = "processFinancialStatement" \/ images # None

\* C11: processFinancialStatement ends only by resolving, and what it
\* resolves to is either {success: true, data} with data fitting the clean
\* extraction schema and no error, or {success: false, error} with error a
\* non-empty string and no data; an error raised inside the run (retries
\* used up, schema failure of the result) is answered, not thrown.
C11_NeverThrows ==
    ByAction
    => /\ (pc = "returned") <=> (response # None)
       /\ (entry = "processFinancialStatement") => pc \in {"start", "returned"}
       /\ (response # None /\ images \notin {None, Some(0)})
            => (error # None \/ result # None)
       /\ response # None
            => \/ /\ response[1].success
                  /\ response[1].data # None
                  /\ CleanExtractionSchema(response[1].data[1])
                  /\ response[1].error = None
                  /\ error = None
               \/ /\ ~response[1].success
                  /\ response[1].data = None
                  /\ response[1].error # None
                  /\ response[1].error[1] \in STRING
                  /\ response[1].error[1] # ""

\* The action answered a run whose result failed the clean schema (a column
\* year "FY123" had come out as "123")
C11_Witness ==
    /\ ByAction
    /\ pc = "returned"
    /\ error # None
    /\ error[1].cause = "clean_schema"
    /\ response = Some(Failure("ZodError"))

\* C12: called with an absent or empty image list, processFinancialStatement
\* resolves to {success: false, error: "No images provided."} in its first
\* step, and the run makes no oracle request and starts no wait.
C12_NoImagesAtOnce ==
    (ByAction /\ images \in {None, Some(0)})
    => /\ requests = NoRequests
       /\ waits = <<>>
       /\ delay = 0
       /\ attempt = 0
       /\ entry = "processFinancialStatement"
       /\ pc \in {"start", "returned"}
       /\ pc = "returned"
            => response = Some([success |-> FALSE, data |-> None,
                                error |-> Some("No images provided."),
                                raw |-> None])

\* The action answered an empty image list, with no API key configured
C12_Witness ==
    /\ ByAction
    /\ images = Some(0)
    /\ ~apiKeySet
    /\ pc = "returned"
    /\ response # None
    /\ response[1].error = Some("No images provided.")

\* normalizeRecords has returned for a single raw record
OneRecordDone ==
    /\ entry = "normalizeRecords"
    /\ result # None
    /\ Len(raw[1].records) = 1

\* C13: the raw value "$1,234.00" normalizes to the number 1234 and its
\* record is in the output.
C13_CurrencyKept ==
    (OneRecordDone /\ raw[1].records[1].value = StrVal(sDollars))
    => /\ Len(result[1].records) = 1
       /\ result[1].records[1].value = [k |-> "fin", m |-> 1234, p |-> 0]

\* s is a decimal number from its first to its last character: an optional
\* sign, digits with an optional fraction (a digit on one side of the point
\* at least) and an optional exponent
IsDecimalText(s) ==
    \E a \in 0..1, na \in 0..Len(s), d \in 0..1, nb \in 0..Len(s),
       x \in 0..1, xs \in 0..1, nx \in 0..Len(s) :
        /\ a + na + d + nb + x + xs + nx = Len(s)
        /\ a = 1 => s[1] \in {"+", "-"}
        /\ \A i \in (a + 1)..(a + na) : s[i] \in Digits
        /\ d = 1 => s[a + na + 1] = "."
        /\ d = 0 => nb = 0
        /\ \A i \in (a + na + d + 1)..(a + na + d + nb) : s[i] \in Digits
        /\ na + nb > 0
        /\ x = 1 => (s[a + na + d + nb + 1] \in {"e", "E"} /\ nx > 0)
        /\ x = 0 => (xs = 0 /\ nx = 0)
        /\ xs = 1 => s[a + na + d + nb + 2] \in {"+", "-"}
        /\ \A i \in (a + na + d + nb + x + xs + 1)..Len(s) : s[i] \in Digits

\* C14: a record with a string value is in the output only when the whole
\* of what remains of the string, after the thousands separators are
\* stripped, a parenthesized value is rewritten as negative and the string
\* is trimmed, is a number; "N/A" and digits followed by other text drop the
\* record.
C14_WholeStringOnly ==
    (OneRecordDone /\ raw[1].records[1].value.t = "str")
    => LET rest == Trim(ParenToMinus(StripCommas(raw[1].records[1].value.s)))
       IN result[1].records # <<>> => IsDecimalText(rest)

\* The year the rule gives for the text s, None when the record is to be
\* dropped: the leftmost four-character token "20dd" that stands alone (no
\* letter, digit or underscore next to it); otherwise, at the leftmost place
\* where an F of FF and a Y of YY are followed by at most one white-space
\* character and two digits, the two to four digits found there, two digits
\* being prefixed with "20"
ExpectedYear(s, FF, YY) ==
    LET tokens == {i \in 1..Len(s) :
                     /\ i + 3 <= Len(s)
                     /\ <<s[i], s[i + 1]>> = <<"2", "0">>
                     /\ \A d \in 2..3 : s[i + d] \in Digits
                     /\ \A j \in {i - 1, i + 4} :
                           j \in 1..Len(s) => s[j] \notin WordChars}
        fy == {<<i, w, n>> \in (1..Len(s)) \X (0..1) \X (2..4) :
                  /\ i + 1 + w + n <= Len(s)
                  /\ s[i] \in FF /\ s[i + 1] \in YY
                  /\ w = 1 => s[i + 2] \in Whitespace
                  /\ \A d \in 1..n : s[i + 1 + w + d] \in Digits
                  /\ n < 4 => ~(/\ i + 2 + w + n <= Len(s)
                                /\ s[i + 2 + w + n] \in Digits)}
    IN IF s = <<>> THEN None
       ELSE IF tokens # {}
            THEN LET i == CHOOSE i \in tokens : \A j \in tokens : i <= j
                 IN Some(SubSeq(s, i, i + 3))
            ELSE IF fy # {}
                 THEN LET m == CHOOSE m \in fy : \A o \in fy : m[1] <= o[1]
                          ds == SubSeq(s, m[1] + 2 + m[2], m[1] + 1 + m[2] + m[3])
                      IN IF m[3] = 2 THEN Some(<<"2", "0">> \o ds) ELSE Some(ds)
                 ELSE None

\* The output follows the rule for the year of the single raw record
FollowsYearRule(FF, YY) ==
    LET expected == ExpectedYear(raw[1].records[1].year, FF, YY)
    IN IF expected = None THEN result[1].records = <<>>
       ELSE /\ Len(result[1].records) = 1
            /\ result[1].records[1].year = expected[1]

\* A raw record with the value "100", a snippet and any year text
YearCase ==
    /\ OneRecordDone
    /\ raw[1].records[1].value = StrVal(s100)
    /\ raw[1].records[1].sourceSnippet = Some(s120)

\* C15 as stated: the year rule with the letters "FY" as written (capitals);
\* a text matching neither pattern drops the record.
C15_YearRuleCapitals == YearCase => FollowsYearRule({"F"}, {"Y"})

\* C15 amended: the year rule with "FY" in either case; "FY25" gives "2025",
\* "FY2024" gives "2024", "31/12/2024" gives "2024", "garbage" drops the
\* record.
C15_YearRule ==
    YearCase
    => /\ FollowsYearRule({"F", "f"}, {"Y", "y"})
       /\ LET y == raw[1].records[1].year
              years == [i \in 1..Len(result[1].records) |->
                           result[1].records[i].year]
          IN /\ y = sFY25 => years = <<<<"2", "0", "2", "5">>>>
             /\ y = sFY2024 => years = <<s2024>>
             /\ y = sDate => years = <<s2024>>
             /\ y = sGarbage => years = <<>>

\* The year "FY 25" gave "2025"
C15_Witness ==
    /\ YearCase
    /\ raw[1].records[1].year = <<"F", "Y", " ", "2", "5">>
    /\ Len(result[1].records) = 1
    /\ result[1].records[1].year = <<"2", "0", "2", "5">>

\* The clean record a raw record that fits CleanRecordSchema stands for
CleanFormOf(r) ==
    [category      |-> r.category[1],
     subCategory   |-> r.subCategory,
     lineItem      |-> r.lineItem,
     year          |-> r.year,
     value         |-> r.value.n,
     unit          |-> r.unit,
     confidence    |-> r.confidence[1],
     sourceSnippet |-> r.sourceSnippet[1]]

\* C16: normalizeRecords returns the records of an input that already fits
\* CleanRecordSchema with every field unchanged and none dropped, and
\* normalizeRecords applied to its own result returns that result.
C16_Idempotent ==
    (entry = "normalizeRecords" /\ result # None)
    => /\ (\A i \in 1..Len(raw[1].records) : raw[1].records[i] \in CleanShaped)
            => result[1].records
                 = [i \in 1..Len(raw[1].records) |->
                       CleanFormOf(raw[1].records[i])]
       /\ renormalized # None => renormalized = result

\* a comes before b in the order of sort() on strings of digits: at the
\* first place where they differ a has the smaller digit, or a is a proper
\* prefix of b
Before(a, b) ==
    \E n \in 0..Len(a) :
        /\ n <= Len(b)
        /\ \A i \in 1..n : a[i] = b[i]
        /\ \/ n = Len(a) /\ n < Len(b)
           \/ n < Len(a) /\ n < Len(b) /\ DigitVal(a[n + 1]) < DigitVal(b[n + 1])

\* C17: yearsDetected of the output of normalizeRecords holds exactly the
\* years of the output records: each year once, in ascending order, a year
\* if and only if an output record has it, and nothing when no record
\* survives.
C17_YearsDetected ==
    (entry = "normalizeRecords" /\ result # None)
    => LET years == result[1].yearsDetected
           records == result[1].records
       IN /\ \A i \in 1..Len(years) : \A j \in 1..Len(years) :
                i < j => Before(years[i], years[j])
          /\ {years[i] : i \in 1..Len(years)}
               = {records[i].year : i \in 1..Len(records)}
          /\ records = <<>> => years = <<>>

\* Two records survive, with year "2024" first and "123" second:
\* yearsDetected lists "123" before "2024"
C17_Witness ==
    /\ entry = "normalizeRecords"
    /\ result # None
    /\ Len(result[1].records) = 2
    /\ result[1].records[1].year = s2024
    /\ result[1].records[2].year = <<"1", "2", "3">>
    /\ result[1].yearsDetected = <<<<"1", "2", "3">>, s2024>>

\* C18: the result of a run never holds two records with the same category,
\* lineItem and year, whatever schema-valid classification the oracle
\* returned.
C18_Deduplicated ==
    (Pipeline /\ result # None)
    => \A i \in 1..Len(result[1].records) :
          \A j \in 1..Len(result[1].records) :
             i < j => <<result[1].records[i].category,
                        result[1].records[i].lineItem,
                        result[1].records[i].year>>
                      # <<result[1].records[j].category,
                          result[1].records[j].lineItem,
                          result[1].records[j].year>>

\* The two runs of SpecTwo, the one that goes on first
TwoRuns == IF other = None THEN {} ELSE {RunContext, other[1]}

\* C19: when two runs of runExtractionPipeline are interleaved at their
\* awaits, each run that has ended has returned or thrown what it returns or
\* throws when it runs by itself on the same tokens and oracle answers, and
\* the grid each run holds is the grid of its own tokens alone: the shared
\* layoutEngine brings nothing from one buildGrid call into another.
C19_Independent ==
    \A r \in TwoRuns :
        /\ r.pc \in {"done", "failed"} =>
              [result |-> r.result, error |-> r.error]
                  = Alone(apiKeySet, r.textData, r.script)
        /\ r.grid # None => r.grid[1] = buildGrid(Page1(r.textData))

\* C19 happens: the first run retried, went through both stages and
\* returned records while the second, on another document, is suspended
\* in a backoff sleep of its classification call with its own grid built
C19_Witness ==
    /\ other # None
    /\ self = 1 /\ pc = "done" /\ waits # <<>>
    /\ result # None /\ result[1].records # <<>>
    /\ other[1].pc = "backoff" /\ other[1].stageName = "CLASSIFICATION"
    /\ other[1].grid # None
    /\ other[1].textData # textData

\* The calls of handleUpload that are at position p
HandlersAt(p) == {i \in DOMAIN handlers : handlers[i].at = p}

\* C20: for any sequence of upload and reset events at most one
\* processFinancialStatement call is in flight; while a call of handleUpload
\* has not completed the file input is disabled and no reset button is
\* rendered; loading is false whenever no call of handleUpload is under way,
\* and after every upload loading returns to false.
C20_NoResubmission ==
    /\ [](/\ Cardinality(HandlersAt("calling")) <= 1
          /\ Cardinality(HandlersAt("converting") \cup HandlersAt("calling"))
                <= 1
          /\ HandlersAt("converting") \cup HandlersAt("calling") # {}
                => /\ app.loading
                   /\ app.error = None /\ app.data = None
          /\ HandlersAt("converting") \cup HandlersAt("calling") = {}
                => ~app.loading)
    /\ (app.loading ~> ~app.loading)

\* C20 happens: after an upload that ended and a reset, the call of a second
\* upload is in flight
C20_Witness ==
    /\ app # None
    /\ Len(handlers) = 2
    /\ handlers[1].at = "returned" /\ handlers[2].at = "calling"
    /\ app.loading

\* The stepwise buildGrid has returned
GridReturned == layout # None /\ layout[1].at = "returned"

\* The row has a cell made of the token's x and text
HasCell(row, item) ==
    \E c \in 1..Len(row.cells) :
        row.cells[c].x = item.x /\ row.cells[c].text = item.str

\* C21: in the grid buildGrid returns, any two tokens whose y coordinates
\* differ by less than ROW_TOLERANCE are cells of one row, whatever the order
\* of the tokens.
C21_SameRow ==
    GridReturned =>
        \A i, j \in 1..Len(layout[1].items) :
            Abs(layout[1].items[i].y - layout[1].items[j].y) < ROW_TOLERANCE_Y
               => \E r \in 1..Len(layout[1].rows) :
                     /\ HasCell(layout[1].rows[r], layout[1].items[i])
                     /\ HasCell(layout[1].rows[r], layout[1].items[j])

\* The rows whose anchor is less than ROW_TOLERANCE away from y
NearRows(rs, y) == {i \in 1..Len(rs) : Abs(rs[i].y - y) < ROW_TOLERANCE_Y}

\* What a step of row grouping makes of the rows rs for the token item:
\* R is the rows after the step
JoinsEarliest(rs, item, R) ==
    /\ \A i \in 1..Len(rs) : Len(R) >= i /\ R[i].y = rs[i].y
    /\ IF NearRows(rs, item.y) # {}
       THEN /\ Len(R) = Len(rs)
            /\ \A i \in 1..Len(rs) :
                  R[i].cells =
                     IF i = Min(NearRows(rs, item.y))
                     THEN Append(rs[i].cells,
                                 [x |-> item.x, text |-> item.str,
                                  colIndex |-> None])
                     ELSE rs[i].cells
       ELSE /\ Len(R) = Len(rs) + 1
            /\ R[Len(R)] = [y |-> item.y,
                            cells |-> <<[x |-> item.x, text |-> item.str,
                                         colIndex |-> None]>>]
            /\ \A i \in 1..Len(rs) : R[i].cells = rs[i].cells

\* C22: each step of row grouping puts the token into the earliest-created
\* row whose anchor is less than ROW_TOLERANCE away from it, or else into a
\* new row anchored at its own y; no anchor changes; and any two anchors are
\* at least ROW_TOLERANCE apart.
C22_FirstMatch ==
    /\ [][(layout # None /\ layout[1].at = "groupByRows"
                         /\ layout'[1].at = "groupByRows")
            => JoinsEarliest(layout[1].rows,
                             layout[1].items[layout[1].seen + 1],
                             layout'[1].rows)]_vars
    /\ [](layout # None =>
            \A i, j \in 1..Len(layout[1].rows) :
                i # j => Abs(layout[1].rows[i].y - layout[1].rows[j].y)
                            >= ROW_TOLERANCE_Y)

\* C22 happens: the token at y 704 has joined the row anchored at 700, the
\* first one made, though the row anchored at 706 is nearer
C22_Witness ==
    /\ layout # None
    /\ layout[1].at = "groupByRows" /\ layout[1].seen = 3
    /\ layout[1].items[3].y = 704
    /\ Len(layout[1].rows) = 2
    /\ layout[1].rows[1].y = 700 /\ layout[1].rows[2].y = 706
    /\ Len(layout[1].rows[1].cells) = 2

\* The x values of the tokens
XValues(items) == {items[i].x : i \in 1..Len(items)}

\* The x value that follows v among the values V
NextX(V, v) == Min({w \in V : w > v})

\* The maximal run of the ascending x values that holds v: the values that
\* are joined to v by steps of COLUMN_TOLERANCE or less
RunOf(V, v) ==
    {w \in V :
        \A a \in V :
            (Min({v, w}) <= a /\ a < Max({v, w}))
               => NextX(V, a) - a <= COLUMN_TOLERANCE_X}

\* The runs whose values are below those of the run R
RunsBelow(V, R) == {RunOf(V, v) : v \in {w \in V : w < Min(R)}}

\* The tokens whose x is in R
TokensIn(items, R) == {i \in 1..Len(items) : items[i].x \in R}

RECURSIVE SumOfX(_, _)
SumOfX(items, I) ==
    IF I = {} THEN 0 ELSE items[Min(I)].x + SumOfX(items, I \ {Min(I)})

\* The columns are the means of the maximal runs, in ascending order
MeansOfRuns(items, columns) ==
    /\ Len(columns) = Cardinality({RunOf(XValues(items), v) :
                                      v \in XValues(items)})
    /\ \A v \in XValues(items) :
          LET R == RunOf(XValues(items), v)
              k == Cardinality(RunsBelow(XValues(items), R)) + 1
          IN /\ columns[k].count = Cardinality(TokensIn(items, R))
             /\ columns[k].sum = SumOfX(items, TokensIn(items, R))

\* Each token's x is more than COLUMN_TOLERANCE after the one before
SpreadOut(items) ==
    \A i \in 2..Len(items) : items[i].x - items[i - 1].x > COLUMN_TOLERANCE_X

\* C23: the columns of buildGrid are the means of the maximal runs of the
\* ascending x values with consecutive values at most COLUMN_TOLERANCE apart,
\* in ascending order; the list is strictly increasing; tokens in ascending
\* x with gaps above COLUMN_TOLERANCE give as many columns as tokens; no
\* tokens give no columns and no rows.
C23_Columns ==
    (layout # None /\ layout[1].globalColumns # None) =>
        LET items   == layout[1].items
            columns == layout[1].globalColumns[1]
        IN /\ MeansOfRuns(items, columns)
           /\ \A k \in 2..Len(columns) :
                 columns[k - 1].sum * columns[k].count
                    < columns[k].sum * columns[k - 1].count
           /\ SpreadOut(items) => Len(columns) = Len(items)
           /\ items = <<>> => columns = <<>> /\ layout[1].rows = <<>>

\* C23 happens: x values 50, 70 and 91 in some order give the two columns
\* 60 (the mean of 50 and 70, which are exactly COLUMN_TOLERANCE apart)
\* and 91
C23_Witness ==
    /\ GridReturned
    /\ XValues(layout[1].items) = {50, 70, 91}
    /\ Len(layout[1].items) = 3
    /\ layout[1].globalColumns[1]
          = <<[sum |-> 120, count |-> 2], [sum |-> 91, count |-> 1]>>

\* The columns (from 1) whose representative is less than MATCH_TOLERANCE
\* away from x
ColumnsInReach(x, columns) ==
    {k \in 1..Len(columns) :
        Abs(x * columns[k].count - columns[k].sum)
           < MATCH_TOLERANCE * columns[k].count}

\* Column k is at most as far from x as column j
NoFarther(x, columns, k, j) ==
    Abs(x * columns[k].count - columns[k].sum) * columns[j].count
       <= Abs(x * columns[j].count - columns[j].sum) * columns[k].count

\* The colIndex the rule gives a cell at x
ClosestColumn(x, columns) ==
    IF ColumnsInReach(x, columns) = {} THEN None
    ELSE Some(Min({k \in ColumnsInReach(x, columns) :
                      \A j \in 1..Len(columns) : NoFarther(x, columns, k, j)})
              - 1)

\* C24: each cell's colIndex is the index of the column whose representative
\* x is closest to the cell's x, the lowest index among equally close ones,
\* if that distance is less than MATCH_TOLERANCE; a cell MATCH_TOLERANCE or
\* more away from every representative has no colIndex.
C24_Alignment ==
    GridReturned =>
        \A r \in 1..Len(layout[1].rows) :
            \A c \in 1..Len(layout[1].rows[r].cells) :
                layout[1].rows[r].cells[c].colIndex
                   = ClosestColumn(layout[1].rows[r].cells[c].x,
                                   layout[1].globalColumns[1])

\* C24 happens: the x values 0, 20, 40, 45 and 50 chain into one cluster of
\* mean 31, and the cell at x = 0, MATCH_TOLERANCE + 1 away from it, has no
\* colIndex while the cell at x = 20 has colIndex 0
C24_Witness ==
    /\ GridReturned
    /\ layout[1].items = OffByOne
    /\ layout[1].globalColumns[1] = <<[sum |-> 155, count |-> 5]>>
    /\ \E r \in 1..Len(layout[1].rows) :
          \E c \in 1..Len(layout[1].rows[r].cells) :
              /\ layout[1].rows[r].cells[c].x = 0
              /\ layout[1].rows[r].cells[c].colIndex = None
    /\ \E r \in 1..Len(layout[1].rows) :
          \E c \in 1..Len(layout[1].rows[r].cells) :
              /\ layout[1].rows[r].cells[c].x = 20
              /\ layout[1].rows[r].cells[c].colIndex = Some(0)

\* C25: in the grid buildGrid returns each colIndex that is set is an
\* integer from 0 to the number of columns less one, the rows are in
\* strictly descending y and the cells of each row in ascending x.
C25_WellFormed ==
    GridReturned =>
        /\ \A r \in 1..Len(layout[1].rows) :
              \A c \in 1..Len(layout[1].rows[r].cells) :
                  layout[1].rows[r].cells[c].colIndex # None
                     => layout[1].rows[r].cells[c].colIndex[1]
                           \in 0..(Len(layout[1].globalColumns[1]) - 1)
        /\ \A r \in 2..Len(layout[1].rows) :
              layout[1].rows[r - 1].y > layout[1].rows[r].y
        /\ \A r \in 1..Len(layout[1].rows) :
              \A c \in 2..Len(layout[1].rows[r].cells) :
                  layout[1].rows[r].cells[c - 1].x
                     <= layout[1].rows[r].cells[c].x

\* C25 happens: the tokens came lowest row first and, within the upper row,
\* rightmost first; the grid has the upper row first, its cells from left to
\* right and in two columns
C25_Witness ==
    /\ GridReturned
    /\ Len(layout[1].items) = 3
    /\ layout[1].items[1].y = 650
    /\ layout[1].items[2].y = 700 /\ layout[1].items[2].x = 91
    /\ layout[1].items[3].y = 704 /\ layout[1].items[3].x = 50
    /\ Len(layout[1].rows) = 2
    /\ layout[1].rows[1].y = 700
    /\ layout[1].rows[1].cells[1].x = 50
    /\ layout[1].rows[1].cells[1].colIndex = Some(0)
    /\ layout[1].rows[1].cells[2].colIndex = Some(1)

RECURSIVE CellCount(_)
CellCount(rs) ==
    IF rs = <<>> THEN 0 ELSE Len(Head(rs).cells) + CellCount(Tail(rs))

\* f places each of the first n tokens in a row whose anchor is less than
\* ROW_TOLERANCE from the token's y, and the cells of each row are the x and
\* text of the tokens placed in it, each as many times as there are such
\* tokens
Places(f, items, n, rs) ==
    /\ \A i \in 1..n : Abs(rs[f[i]].y - items[i].y) < ROW_TOLERANCE_Y
    /\ \A r \in 1..Len(rs) :
          /\ Len(rs[r].cells) = Cardinality({i \in 1..n : f[i] = r})
          /\ \A i \in 1..n :
                f[i] = r =>
                   Cardinality({c \in 1..Len(rs[r].cells) :
                                   /\ rs[r].cells[c].x = items[i].x
                                   /\ rs[r].cells[c].text = items[i].str})
                      = Cardinality({j \in 1..n :
                                        /\ f[j] = r
                                        /\ items[j].x = items[i].x
                                        /\ items[j].str = items[i].str})

\* C30: after every step of row grouping and in the returned grid the rows
\* hold as many cells as tokens were processed, and the tokens can be placed
\* one row each so that every row's cells are the x and text of its tokens
\* and its anchor is less than ROW_TOLERANCE from each of them.
C30_NoTokenLostOrDuplicated ==
    layout # None =>
        /\ CellCount(layout[1].rows) = layout[1].seen
        /\ \E f \in [1..layout[1].seen -> 1..Len(layout[1].rows)] :
              Places(f, layout[1].items, layout[1].seen, layout[1].rows)

\* C30 happens: three tokens have been grouped, the third into the row of
\* the first, and a fourth one is still to come
C30_Witness ==
    /\ layout # None
    /\ layout[1].at = "groupByRows"
    /\ layout[1].seen = 3 /\ Len(layout[1].items) = 4
    /\ Len(layout[1].rows) = 2
    /\ Len(layout[1].rows[1].cells) = 2
    /\ layout[1].rows[1].cells[2].text = s120

\* The cell text the merge takes as the value of column index j in gridRow,
\* blank when it finds no cell there
ValueAt(gridRow, j) ==
    IF FindCell(gridRow.cells, j) = 0 THEN <<>>
    ELSE gridRow.cells[FindCell(gridRow.cells, j)].text

\* C28: for every row i and column index j of a grid, the text at (i, j) of
\* the dense representation put in the classification prompt is the cell
\* text the merge takes as the value for (i, j), and it is blank exactly
\* when the merge finds no value there, also when several cells of a row
\* have the same colIndex.
C28_OracleSeesMergeValues ==
    GridReturned =>
        \A i \in 1..Len(layout[1].rows) :
            \A j \in 0..(Len(layout[1].globalColumns[1]) - 1) :
                DenseGrid(layout[1].rows,
                          Len(layout[1].globalColumns[1]))[i][j + 1]
                   = ValueAt(layout[1].rows[i], j)

\* The guard as the claim words it: no record, or a sourceSnippet in every
\* record and a financial keyword in some record's lineItem or category
PassesGuard(json) ==
    \/ Len(json.records) = 0
    \/ /\ \A i \in 1..Len(json.records) :
             /\ json.records[i].sourceSnippet # None
             /\ json.records[i].sourceSnippet[1] # <<>>
       /\ \E i \in 1..Len(json.records) :
             \/ HasKeyword(json.records[i].lineItem)
             \/ /\ json.records[i].category # None
                /\ HasKeyword(json.records[i].category[1])

\* C27: extractFinancialData returns a parsed response on the attempt that
\* produced it if and only if it has no record or passes the guard (every
\* record with a sourceSnippet, some record with a financial keyword in its
\* lineItem or category); any other response makes the attempt fail, which
\* is followed by a backoff and another attempt unless it was the third;
\* no more than 3 requests are made.
C27_HallucinationGuard ==
    /\ [][(entry = "extractFinancialData" /\ pc = "request") =>
            \A resp \in Responses(SingleJsons) :
                /\ SingleReturnsWith(resp) =>
                      /\ resp.kind = "json" /\ PassesGuard(resp.json)
                      /\ result' = Some(resp.json)
                      /\ requests' = requests
                /\ SingleFailsWith(resp) =>
                      /\ ~(resp.kind = "json" /\ PassesGuard(resp.json))
                      /\ result' = None
                      /\ pc' = IF attempt < 3 THEN "backoff" ELSE "failed"
                /\ (resp.kind = "json" /\ PassesGuard(resp.json))
                      => ENABLED SingleReturnsWith(resp)
                /\ ~(resp.kind = "json" /\ PassesGuard(resp.json))
                      => ENABLED SingleFailsWith(resp)]_vars
    /\ [](requests.SINGLE <= 3)

\* C27 happens: the second attempt returned records after the first one was
\* rejected for lack of a financial keyword
C27_Witness ==
    /\ entry = "extractFinancialData"
    /\ pc = "done" /\ attempt = 2
    /\ lastError # None /\ lastError[1].cause = "keywords"
    /\ result # None /\ Len(result[1].records) > 0

\* C26: within a run of runExtractionPipeline a request is issued one at a
\* time and only when none is outstanding: before the run's first step, after
\* a backoff wait, or in the step in which the detection request returned its
\* payload; a classification request has been
\* issued only if detection returned a schema-valid payload with
\* hasTable = true and a confidence other than low; once classification has
\* been requested, detection is not requested again; normalization has run
\* only if classification has returned.
C26_StageOrder ==
    /\ [][(entry = "runExtractionPipeline" /\ requests' # requests) =>
            /\ pc' = "request"
            /\ pc = "request" =>
                  /\ stageName = "DETECTION" /\ stageName' = "CLASSIFICATION"
                  /\ detection = None /\ detection' # None
            /\ requests'.DETECTION + requests'.CLASSIFICATION
                  = requests.DETECTION + requests.CLASSIFICATION + 1
            /\ requests.CLASSIFICATION >= 1
                  => requests'.DETECTION = requests.DETECTION]_vars
    /\ []((entry = "runExtractionPipeline" /\ requests.CLASSIFICATION >= 1) =>
            /\ detection # None
            /\ detection[1].hasTable = "true"
            /\ detection[1].confidence \in {"high", "medium"}
            /\ detection[1].tableType \in {"income_statement", "balance_sheet",
                                           "cash_flow", "other", "unknown"})
    /\ []((entry = "runExtractionPipeline" /\ normalized # None) =>
            /\ classification # None
            /\ requests.CLASSIFICATION >= 1)

\* C26 happens: a run went through two detection requests, then two
\* classification requests, then normalization, and returned
C26_Witness ==
    /\ entry = "runExtractionPipeline"
    /\ pc = "done"
    /\ requests.DETECTION = 2 /\ requests.CLASSIFICATION = 2
    /\ classification # None /\ normalized # None

\* An upper bound of the steps a run has yet to take: 2 for each attempt
\* that may still be made in the stage, 4 for the classification stage when
\* it is still to come
StepsLeft ==
    IF pc = "start" THEN 9
    ELSE IF pc \in {"done", "failed"} THEN 0
         ELSE (IF stageName = "DETECTION" THEN 4 ELSE 0)
                + 2 * (MAX_RETRIES - attempt)
                + (IF pc = "request" THEN 2 ELSE 1)

\* C29: a run of runExtractionPipeline makes at most 2 detection requests,
\* at most 2 classification requests (4 in all) and at most 2 backoff waits,
\* whatever the oracle answers; every step brings it nearer to its end, a
\* step is possible as long as it has not ended, and at its end it has
\* returned a result or raised an error: so it ends, within 9 steps, once
\* every request is answered and every wait elapses.
C29_Terminates ==
    /\ [](/\ requests.DETECTION <= 2
          /\ requests.CLASSIFICATION <= 2
          /\ requests.DETECTION + requests.CLASSIFICATION <= 4
          /\ Len(waits) <= 2
          /\ StepsLeft \in 0..9)
    /\ [][StepsLeft' < StepsLeft]_vars
    /\ [](pc \notin {"done", "failed"} => ENABLED NextRun)
    /\ [](pc = "done" => result # None /\ error = None)
    /\ [](pc = "failed" => error # None /\ result = None)

\* C29 happens: a run has ended after 4 requests and 2 backoff waits
C29_Witness ==
    /\ entry = "runExtractionPipeline"
    /\ pc \in {"done", "failed"}
    /\ requests.DETECTION = 2 /\ requests.CLASSIFICATION = 2
    /\ Len(waits) = 2

====
